---- MODULE Spec2Model ----
(***************************************************************************)
(* Model of gpo_tools/parse.py: the hearing parser (ParseHearing) and its   *)
(* batch driver (Parser.parse_gpo_hearings).                                *)
(*                                                                          *)
(* A transcript is a sequence of text chunks ("tokens").  Every chunk has a *)
(* fixed text, hence a fixed width in characters, and the regular           *)
(* expressions of the source are modelled by the character offsets at which *)
(* they match inside each chunk:                                            *)
(*   met   "\nThe Committee met today."                  opening at +1      *)
(*   adj   "\nWhereupon, the Committee was adjourned."   closing at +1      *)
(*   txt   "\nSome text here."                           no match           *)
(*   nl    "\n    Indented text here."                   newline+indent     *)
(*   lbl   "\n    <label>. Thank you."                   newline+indent,    *)
(*                                                       label at +5        *)
(*   ilbl  "    <label>. Hello there."                   label at +4, no    *)
(*                                                       newline            *)
(*   pad   "\n" followed by 74999 letters                no match           *)
(*   chair "\nHon. John <Last> (chairman of the committee) presiding."        *)
(*   pres  "\n    Present: Representatives Smith and Jones."                  *)
(*   mric  "\nHon. <Last>, a Representative in Congress from Texas."          *)
(*   mrep  "\nRepresentative <Last> of Texas."                                *)
(*   mpln  "\nStatement of Mr. <Last>, a witness."                            *)
(* All offsets are character offsets into the transcript, as in the source. *)
(***************************************************************************)
EXTENDS Integers, Sequences, FiniteSets, TLC

(***************************************************************************)
(* Bounds of the model.                                                     *)
(***************************************************************************)
MaxLen == 3          \* longest transcript, in chunks
MaxIds == 2          \* longest id_values list

(***************************************************************************)
(* Python helpers.                                                          *)
(***************************************************************************)
None == "None"

Min(a, b) == IF a < b THEN a ELSE b
Max(a, b) == IF a > b THEN a ELSE b

\* index normalisation of a Python slice bound i for a sequence of length n
PyIdx(i, n) == IF i < 0 THEN Max(i + n, 0) ELSE Min(i, n)

\* list[k:] with k >= 0 (0-based), as used in _find_sessions
PyTail(s, k) == IF k >= Len(s) THEN << >> ELSE SubSeq(s, k + 1, Len(s))

RECURSIVE Zip(_, _)
Zip(a, b) == IF a = << >> \/ b = << >> THEN << >>
             ELSE << <<Head(a), Head(b)>> >> \o Zip(Tail(a), Tail(b))

RECURSIVE SeqSum(_)
SeqSum(s) == IF s = << >> THEN 0 ELSE Head(s) + SeqSum(Tail(s))

\* members of a set of integers in increasing order
RECURSIVE SortedSeq(_)
SortedSeq(S) == IF S = {} THEN << >>
                ELSE LET m == CHOOSE x \in S : \A y \in S : x <= y
                     IN <<m>> \o SortedSeq(S \ {m})

Range(s) == {s[i] : i \in DOMAIN s}

(***************************************************************************)
(* Words and speaker labels.  A label is the text matched by the name       *)
(* regex: a prefix, an optional surname and an optional "of <State>".       *)
(***************************************************************************)
\* the characters of the words of the model
Chars ==
    ("" :> << >>)
    @@ ("Mr." :> <<"M", "r", ".">>)
    @@ ("Ms." :> <<"M", "s", ".">>)
    @@ ("Voice" :> <<"V", "o", "i", "c", "e">>)
    @@ ("The Chairman" :> <<"T", "h", "e", " ", "C", "h", "a", "i", "r", "m", "a", "n">>)
    @@ ("Smith" :> <<"S", "m", "i", "t", "h">>)
    @@ ("Jones" :> <<"J", "o", "n", "e", "s">>)
    @@ ("Texas" :> <<"T", "e", "x", "a", "s">>)
    @@ ("TEXAS" :> <<"T", "E", "X", "A", "S">>)
    @@ ("Arkansas" :> <<"A", "r", "k", "a", "n", "s", "a", "s">>)
    @@ ("Gene" :> <<"G", "e", "n", "e">>)
    @@ ("Mary" :> <<"M", "a", "r", "y">>)
    @@ ("Mr. Van Der Meer De" :> <<"M", "r", ".", " ", "V", "a", "n", " ", "D", "e", "r", " ", "M", "e", "e", "r", " ", "D", "e">>)

\* len(w)
StrLen == [w \in DOMAIN Chars |-> Len(Chars[w])]

Label(pre, last, of) == [pre |-> pre, last |-> last, of |-> of]

NoLabel == Label("", "", "")

LabelLen(l) == StrLen[l.pre]
               + (IF l.last = "" THEN 0 ELSE 1 + StrLen[l.last])
               + (IF l.of = "" THEN 0 ELSE 4 + StrLen[l.of])

\* the text of a label, character by character
LabelChars(l) == Chars[l.pre]
                 \o (IF l.last = "" THEN << >> ELSE <<" ">> \o Chars[l.last])
                 \o (IF l.of = "" THEN << >> ELSE <<" ", "o", "f", " ">> \o Chars[l.of])

\* the labels of the model
LabelSpace == {Label(pre, last, of) :
                  pre \in DOMAIN Chars \ {"Smith", "Jones", "Texas", "TEXAS", "Arkansas"},
                  last \in {"", "Smith", "Jones", "Texas"},
                  of \in {"", "Texas", "TEXAS", "Arkansas"}}

\* len(match.group(0).split()) for the labels of the model
SplitLen == [l \in LabelSpace |->
                IF LabelChars(l) = << >> THEN 0
                ELSE Cardinality({i \in DOMAIN LabelChars(l) :
                                     /\ LabelChars(l)[i] # " "
                                     /\ (i = 1 \/ LabelChars(l)[i - 1] = " ")})]

\* number of whitespace-separated words of the label text
LabelWords(l) == SplitLen[l]

(***************************************************************************)
(* Transcript text: chunks, widths and offsets.                             *)
(***************************************************************************)
Tok(k, l) == [k |-> k, l |-> l]

\* number of characters of a chunk of kind k whose label text has label_len
\* characters and whose surname has last_len characters
ChunkWidth(k, label_len, last_len) ==
    CASE k = "met"  -> 25
      [] k = "adj"  -> 40
      [] k = "txt"  -> 16
      [] k = "nl"   -> 24
      [] k = "lbl"  -> 5 + label_len + 12
      [] k = "ilbl" -> 4 + label_len + 14
      [] k = "pad"  -> 75000
      [] k = "chair" -> 50 + last_len
      [] k = "pres" -> 46
      [] k = "mric" -> 48 + last_len
      [] k = "mrep" -> 26 + last_len
      [] k = "mpln" -> 30 + last_len
      [] k = "qfr"  -> 56

Width(t) == ChunkWidth(t.k, LabelLen(t.l), StrLen[t.l.last])

\* len(transcript)
TLen(tr) == SeqSum([i \in DOMAIN tr |-> Width(tr[i])])

\* offset of the first character of chunk i
Start(tr, i) == SeqSum([j \in 1..(i - 1) |-> Width(tr[j])])

\* offsets of the label text of a lbl / ilbl chunk: [LabelStart, LabelEnd)
LabelStart(tr, i) == Start(tr, i) + (IF tr[i].k = "lbl" THEN 5 ELSE 4)
LabelEnd(tr, i) == LabelStart(tr, i) + LabelLen(tr[i].l)

(***************************************************************************)
(* ParseHearing.__init__: prefixes and max_search_length.                   *)
(***************************************************************************)
prefixes == {"Mr.", "Mrs.", "Ms.", "Mr", "Mrs", "Ms", "Chairman", "Chairwoman", "Dr.", "Dr",
             "Senator", "Secretary", "Director", "Representative", "Vice Chairman",
             "Vice Chair", "Admiral", "General", "Gen.", "Judge", "Commissioner",
             "Lieutenant", "Lt.", "Trustee", "Sergeant", "Major", "Colonel", "Captain",
             "Capt.", "Commander", "Specialist", "Voice", "The Chairman", "The Chairwoman",
             "Governor", "Chair", "The Clerk", "Clerk", "Mayor", "Reverend", "Justice",
             "Ambassador", "Chief"}

\* the characters of the entries of the prefix list
PrefixChars ==
    ("Mr." :> <<"M", "r", ".">>)
    @@ ("Mrs." :> <<"M", "r", "s", ".">>)
    @@ ("Ms." :> <<"M", "s", ".">>)
    @@ ("Mr" :> <<"M", "r">>)
    @@ ("Mrs" :> <<"M", "r", "s">>)
    @@ ("Ms" :> <<"M", "s">>)
    @@ ("Chairman" :> <<"C", "h", "a", "i", "r", "m", "a", "n">>)
    @@ ("Chairwoman" :> <<"C", "h", "a", "i", "r", "w", "o", "m", "a", "n">>)
    @@ ("Dr." :> <<"D", "r", ".">>)
    @@ ("Dr" :> <<"D", "r">>)
    @@ ("Senator" :> <<"S", "e", "n", "a", "t", "o", "r">>)
    @@ ("Secretary" :> <<"S", "e", "c", "r", "e", "t", "a", "r", "y">>)
    @@ ("Director" :> <<"D", "i", "r", "e", "c", "t", "o", "r">>)
    @@ ("Representative" :> <<"R", "e", "p", "r", "e", "s", "e", "n", "t", "a", "t", "i", "v", "e">>)
    @@ ("Vice Chairman" :> <<"V", "i", "c", "e", " ", "C", "h", "a", "i", "r", "m", "a", "n">>)
    @@ ("Vice Chair" :> <<"V", "i", "c", "e", " ", "C", "h", "a", "i", "r">>)
    @@ ("Admiral" :> <<"A", "d", "m", "i", "r", "a", "l">>)
    @@ ("General" :> <<"G", "e", "n", "e", "r", "a", "l">>)
    @@ ("Gen." :> <<"G", "e", "n", ".">>)
    @@ ("Judge" :> <<"J", "u", "d", "g", "e">>)
    @@ ("Commissioner" :> <<"C", "o", "m", "m", "i", "s", "s", "i", "o", "n", "e", "r">>)
    @@ ("Lieutenant" :> <<"L", "i", "e", "u", "t", "e", "n", "a", "n", "t">>)
    @@ ("Lt." :> <<"L", "t", ".">>)
    @@ ("Trustee" :> <<"T", "r", "u", "s", "t", "e", "e">>)
    @@ ("Sergeant" :> <<"S", "e", "r", "g", "e", "a", "n", "t">>)
    @@ ("Major" :> <<"M", "a", "j", "o", "r">>)
    @@ ("Colonel" :> <<"C", "o", "l", "o", "n", "e", "l">>)
    @@ ("Captain" :> <<"C", "a", "p", "t", "a", "i", "n">>)
    @@ ("Capt." :> <<"C", "a", "p", "t", ".">>)
    @@ ("Commander" :> <<"C", "o", "m", "m", "a", "n", "d", "e", "r">>)
    @@ ("Specialist" :> <<"S", "p", "e", "c", "i", "a", "l", "i", "s", "t">>)
    @@ ("Voice" :> <<"V", "o", "i", "c", "e">>)
    @@ ("The Chairman" :> <<"T", "h", "e", " ", "C", "h", "a", "i", "r", "m", "a", "n">>)
    @@ ("The Chairwoman" :> <<"T", "h", "e", " ", "C", "h", "a", "i", "r", "w", "o", "m", "a", "n">>)
    @@ ("Governor" :> <<"G", "o", "v", "e", "r", "n", "o", "r">>)
    @@ ("Chair" :> <<"C", "h", "a", "i", "r">>)
    @@ ("The Clerk" :> <<"T", "h", "e", " ", "C", "l", "e", "r", "k">>)
    @@ ("Clerk" :> <<"C", "l", "e", "r", "k">>)
    @@ ("Mayor" :> <<"M", "a", "y", "o", "r">>)
    @@ ("Reverend" :> <<"R", "e", "v", "e", "r", "e", "n", "d">>)
    @@ ("Justice" :> <<"J", "u", "s", "t", "i", "c", "e">>)
    @@ ("Ambassador" :> <<"A", "m", "b", "a", "s", "s", "a", "d", "o", "r">>)
    @@ ("Chief" :> <<"C", "h", "i", "e", "f">>)

\* str.upper, character by character
Upper ==
    (" " :> " ")
    @@ ("." :> ".")
    @@ ("A" :> "A")
    @@ ("C" :> "C")
    @@ ("D" :> "D")
    @@ ("E" :> "E")
    @@ ("G" :> "G")
    @@ ("J" :> "J")
    @@ ("L" :> "L")
    @@ ("M" :> "M")
    @@ ("R" :> "R")
    @@ ("S" :> "S")
    @@ ("T" :> "T")
    @@ ("V" :> "V")
    @@ ("X" :> "X")
    @@ ("a" :> "A")
    @@ ("b" :> "B")
    @@ ("c" :> "C")
    @@ ("d" :> "D")
    @@ ("e" :> "E")
    @@ ("f" :> "F")
    @@ ("g" :> "G")
    @@ ("h" :> "H")
    @@ ("i" :> "I")
    @@ ("j" :> "J")
    @@ ("k" :> "K")
    @@ ("l" :> "L")
    @@ ("m" :> "M")
    @@ ("n" :> "N")
    @@ ("o" :> "O")
    @@ ("p" :> "P")
    @@ ("r" :> "R")
    @@ ("s" :> "S")
    @@ ("t" :> "T")
    @@ ("u" :> "U")
    @@ ("v" :> "V")
    @@ ("w" :> "W")
    @@ ("x" :> "X")
    @@ ("y" :> "Y")

\* line 256: the list with the upper-cased entries added, as the patterns
\* that line 309 joins into one regular expression
Patterns == {PrefixChars[p] : p \in prefixes}
            \cup {[i \in DOMAIN PrefixChars[p] |-> Upper[PrefixChars[p][i]]] : p \in prefixes}

\* re.search('^' + pattern, text) for a pattern of letters, blanks and
\* dots: an unescaped dot matches any character
RegexStarts(pattern, text) ==
    /\ Len(pattern) <= Len(text)
    /\ \A i \in DOMAIN pattern : pattern[i] = "." \/ pattern[i] = text[i]

\* line 309: re.search('^(' + '|'.join(self.prefixes) + ')', match.group(0))
\* is not None, for the labels of the model
PrefixSearch == [l \in LabelSpace |-> \E pattern \in Patterns : RegexStarts(pattern, LabelChars(l))]

max_search_length == 75000

(***************************************************************************)
(* ParseHearing._name_search on the text transcript[a:b] (a, b already      *)
(* normalised, a <= b).  The regex needs the four spaces before the label   *)
(* and the ". " after it inside the searched window, which is cut at        *)
(* max_search_length characters.  The result is relative to a, as           *)
(* match.start() / match.end() are.                                         *)
(***************************************************************************)
NoMatch == [found |-> FALSE, start |-> 0, end |-> 0, label |-> NoLabel]

\* the test of lines 308-309 on one regex match
Qualifies(l) == LabelWords(l) <= 5 /\ PrefixSearch[l]

\* the least element of a non-empty set of chunk numbers: the leftmost match
First(hits) == CHOOSE x \in hits : \A y \in hits : x <= y

\* the labels the regex matches in transcript[a:e] that pass lines 308-309
Matches(tr, a, e) == {i \in DOMAIN tr : /\ tr[i].k \in {"lbl", "ilbl"}
                                        /\ LabelStart(tr, i) - 4 >= a
                                        /\ LabelEnd(tr, i) + 2 <= e
                                        /\ Qualifies(tr[i].l)}

\* line 311: the first qualifying match, or None (line 313)
FirstMatch(tr, a, hits) ==
    IF hits = {} THEN NoMatch
    ELSE [found |-> TRUE, start |-> LabelStart(tr, First(hits)) - a,
          end |-> LabelEnd(tr, First(hits)) - a, label |-> tr[First(hits)].l]

name_search(tr, a, b) == FirstMatch(tr, a, Matches(tr, a, Min(b, a + max_search_length)))

(***************************************************************************)
(* ParseHearing._find_sessions: returns the session cutpoints and the       *)
(* value it leaves in self.delete_last.                                     *)
(***************************************************************************)
\* match offsets of 'The (Committee|Subcommittee)s? met'
OpeningMarks(tr) == SortedSeq({Start(tr, i) + 1 : i \in {j \in DOMAIN tr : tr[j].k = "met"}})

\* match offsets of the adjourned / recessed / additional-material regex
ClosingMarks(tr) == SortedSeq({Start(tr, i) + 1 : i \in {j \in DOMAIN tr : tr[j].k = "adj"}})

\* closings += openings[len(closings) + 1:]
PadClosings(closings, openings) == closings \o PyTail(openings, Len(closings) + 1)

\* lines 326-330: openings
Openings(tr, o) == IF Len(o) > 0 THEN o ELSE << name_search(tr, 0, TLen(tr)).start - 10 >>

\* lines 335-340: closings
Closings(c, n) == IF Len(c) > 0 THEN c ELSE << n >>

\* PairSessions without the assignment of line 345
PairSessions_KeepsFlag(openings0, closings0, n, dl0) ==
    LET fewer == Len(closings0) < Len(openings0)
        more == Len(openings0) < Len(closings0)
        closings == IF fewer THEN PadClosings(closings0, openings0) \o << n >>
                    ELSE closings0
        openings == IF ~fewer /\ more THEN openings0 \o PyTail(closings0, Len(openings0))
                    ELSE openings0
    IN [cutpoints |-> Zip(openings, closings),
        delete_last |-> dl0]

\* lines 342-349 on the openings and closings of lines 326-340, the length n
\* of the transcript and the delete_last of lines 337 / 340
PairSessions(openings0, closings0, n, dl0) ==
    LET fewer == Len(closings0) < Len(openings0)
        more == Len(openings0) < Len(closings0)
        closings == IF fewer THEN PadClosings(closings0, openings0) \o << n >>
                    ELSE closings0
        openings == IF ~fewer /\ more THEN openings0 \o PyTail(closings0, Len(openings0))
                    ELSE openings0
    IN [cutpoints |-> Zip(openings, closings),
        delete_last |-> IF fewer THEN TRUE ELSE dl0]

find_sessions(tr) ==
    PairSessions(Openings(tr, OpeningMarks(tr)), Closings(ClosingMarks(tr), TLen(tr)),
                 TLen(tr), ~(Len(ClosingMarks(tr)) > 0))

(***************************************************************************)
(* ParseHearing._find_statements.                                           *)
(***************************************************************************)
\* offsets (relative to the slice) of the matches of '\n+( {4}|\t)' in
\* transcript[opening:closing]
NewlinesIn(tr, a, b) ==
    SortedSeq({Start(tr, i) - a : i \in {j \in DOMAIN tr :
                  /\ tr[j].k \in {"lbl", "nl", "pres"}
                  /\ Start(tr, j) >= a
                  /\ Start(tr, j) + 5 <= b}})

Newlines(tr, opening, closing) ==
    NewlinesIn(tr, PyIdx(opening, TLen(tr)), PyIdx(closing, TLen(tr)))

\* lines 364-369: the text of line i (normalised slice bounds) and the
\* search in it
LineSearch(tr, from, to) == IF from <= to THEN name_search(tr, from, to) ELSE NoMatch

\* line 375
CutOf(s, offset) == IF s.found THEN << << s.start + offset, s.end + offset >> >> ELSE << >>

\* LineCut with the offset of line 372 taken as the session opening only
LineCut_NoLineOffset(tr, opening, closing, newlines, n, i) ==
    CutOf(LineSearch(tr, PyIdx(newlines[i] + opening, n),
                     IF i < Len(newlines) THEN PyIdx(newlines[i + 1] + opening, n)
                     ELSE PyIdx(closing, n)),
          opening)

\* lines 364-375: the cut appended for line i of the session, if any
LineCut(tr, opening, closing, newlines, n, i) ==
    CutOf(LineSearch(tr, PyIdx(newlines[i] + opening, n),
                     IF i < Len(newlines) THEN PyIdx(newlines[i + 1] + opening, n)
                     ELSE PyIdx(closing, n)),
          newlines[i] + opening)

\* the loop of line 363, from line i on
RECURSIVE LineCuts(_, _, _, _, _, _)
LineCuts(tr, opening, closing, newlines, n, i) ==
    IF i > Len(newlines) THEN << >>
    ELSE LineCut(tr, opening, closing, newlines, n, i)
         \o LineCuts(tr, opening, closing, newlines, n, i + 1)

\* the cuts of one session, without its sentinel
SessionCuts(tr, opening, closing) ==
    LineCuts(tr, opening, closing, Newlines(tr, opening, closing), TLen(tr), 1)

RECURSIVE find_statements_SkipsEmpty(_, _)

\* find_statements with a sentinel only for the sessions that hold a label
find_statements_SkipsEmpty(tr, session_cutpoints) ==
    IF session_cutpoints = << >> THEN << >>
    ELSE LET opening == Head(session_cutpoints)[1]
             closing == Head(session_cutpoints)[2]
         IN (IF SessionCuts(tr, opening, closing) = << >> THEN << >>
             ELSE SessionCuts(tr, opening, closing) \o << <<closing>> >>)
            \o find_statements_SkipsEmpty(tr, Tail(session_cutpoints))

RECURSIVE find_statements(_, _)

\* lines 360-379
find_statements(tr, session_cutpoints) ==
    IF session_cutpoints = << >> THEN << >>
    ELSE LET opening == Head(session_cutpoints)[1]
             closing == Head(session_cutpoints)[2]
         IN SessionCuts(tr, opening, closing) \o << <<closing>> >>
            \o find_statements(tr, Tail(session_cutpoints))

(***************************************************************************)
(* Strings: lower-casing and substring tests on the words of the model.     *)
(***************************************************************************)
Lower == [w \in {"", "Smith", "Jones", "Texas", "TEXAS", "Arkansas", "smith", "jones",
                 "texas"} |->
            CASE w \in {"Smith", "smith"} -> "smith"
              [] w \in {"Jones", "jones"} -> "jones"
              [] w \in {"Texas", "TEXAS", "texas"} -> "texas"
              [] w = "Arkansas" -> "arkansas"
              [] w = "" -> ""]

\* needle in hay, for lower-cased words
Contains(hay, needle) == needle = "" \/ hay = needle

(***************************************************************************)
(* ParseHearing._segment_transcript.                                        *)
(***************************************************************************)
\* the entries of states_long / states_abbrev the labels of the model name,
\* and 'kansas', which is part of 'arkansas'; in the order of the source
states_long == <<"arkansas", "kansas", "new york", "texas">>
states_abbrev == <<"AR", "KS", "NY", "TX">>

StateChars ==
    ("arkansas" :> <<"a", "r", "k", "a", "n", "s", "a", "s">>)
    @@ ("kansas" :> <<"k", "a", "n", "s", "a", "s">>)
    @@ ("new york" :> <<"n", "e", "w", " ", "y", "o", "r", "k">>)
    @@ ("texas" :> <<"t", "e", "x", "a", "s">>)

\* the letters of text in one case, for the tests that ignore the case
UpperSeq(text) == [i \in DOMAIN text |-> Upper[text[i]]]

\* needle in hay, character by character
Within(needle, hay) ==
    \E i \in 0..(Len(hay) - Len(needle)) : SubSeq(hay, i + 1, i + Len(needle)) = needle

\* line 412: [st for st in states_long if st in name_str.lower()], for the
\* labels of the model
StateMatches ==
    [l \in LabelSpace |->
        {st \in Range(states_long) :
            Within(UpperSeq(StateChars[st]), UpperSeq(LabelChars(l)))}]

\* name_str, state_str of process_name; name_str[cut[0]:cut[1]] is a label
process_name(l) ==
    LET state_matches == StateMatches[l]
    IN IF Cardinality(state_matches) = 1
       THEN LET state_str == CHOOSE st \in state_matches : TRUE
            IN [name |-> IF /\ l.of # ""
                            /\ UpperSeq(Chars[l.of]) = UpperSeq(StateChars[state_str])
                         THEN Label(l.pre, l.last, "") ELSE l,
                state |-> state_str]
       ELSE [name |-> l, state |-> None]

\* transcript[a:b] as a label: the label whose text lies at [a, b)
LabelOf(tr, at) == IF at = {} THEN NoLabel ELSE tr[CHOOSE i \in at : TRUE].l

LabelAt(tr, a, b) ==
    LabelOf(tr, {i \in DOMAIN tr : /\ tr[i].k \in {"lbl", "ilbl"}
                                   /\ LabelStart(tr, i) = PyIdx(a, TLen(tr))
                                   /\ LabelEnd(tr, i) = PyIdx(b, TLen(tr))})

\* committee_data[meta_chamber + '-' + c], keyed here by the pair
CKey(chamber, c) == <<chamber, c>>

\* lines 443-456: the exception raised by the committee lookups, or "" 
CommitteeLookup(entry, committee_data) ==
    IF DOMAIN committee_data = {} THEN ""
    ELSE IF \E i \in DOMAIN entry.committees :
               CKey(entry.chamber, entry.committees[i]) \notin DOMAIN committee_data
         THEN "KeyError"
         ELSE IF entry.committees = << >> THEN "IndexError"   \* hearing_chamber[0]
              ELSE ""

Codes(entry, committee_data) ==
    IF DOMAIN committee_data = {} THEN << >>
    ELSE [i \in DOMAIN entry.committees |->
             committee_data[CKey(entry.chamber, entry.committees[i])].Code]

HearingChamber(entry, committee_data) ==
    IF DOMAIN committee_data = {} THEN None
    ELSE LET chambers == {committee_data[CKey(entry.chamber, entry.committees[i])].Chamber :
                             i \in DOMAIN entry.committees}
         IN IF Cardinality(chambers) > 1 THEN "JOINT"
            ELSE CHOOSE c \in chambers : TRUE

\* the record appended for the real span number i of statement_cutpoints
\* lines 464-468 for the name and state of line 438
\* StatementOf without the two characters skipped after the label
StatementOf_NoSkip(entry, committee_data, cuts, i, pn) ==
    [name_raw |-> pn.name, state |-> pn.state,
     name_full |-> None, member_id |-> None, party |-> None,
     committees |-> Codes(entry, committee_data),
     person_chamber |-> None,
     hearing_chamber |-> HearingChamber(entry, committee_data),
     majority |-> None, party_seniority |-> None, leadership |-> None,
     congress |-> entry.congress, jacket |-> entry.id,
     from |-> cuts[i][2], to |-> cuts[i + 1][1],
     branch |-> None]

\* lines 437-468: the record of the real span cuts[i], with the processed name pn
StatementOf(entry, committee_data, cuts, i, pn) ==
    [name_raw |-> pn.name, state |-> pn.state,
     name_full |-> None, member_id |-> None, party |-> None,
     committees |-> Codes(entry, committee_data),
     person_chamber |-> None,
     hearing_chamber |-> HearingChamber(entry, committee_data),
     majority |-> None, party_seniority |-> None, leadership |-> None,
     congress |-> entry.congress, jacket |-> entry.id,
     from |-> cuts[i][2] + 2, to |-> cuts[i + 1][1],
     branch |-> None]

Statement(entry, committee_data, cuts, i) ==
    StatementOf(entry, committee_data, cuts, i,
                process_name(LabelAt(entry.transcript, cuts[i][1], cuts[i][2])))

\* del output[-1]
DelLast(output) == SubSeq(output, 1, Len(output) - 1)

\* Result: raised is the exception that leaves the method ("" for none)
\* lines 470-473
Truncate(output, delete_last) ==
    IF delete_last
    THEN IF output = << >> THEN [raised |-> "IndexError", output |-> << >>]
         ELSE [raised |-> "", output |-> DelLast(output)]
    ELSE [raised |-> "", output |-> output]

\* lines 434-473 on the numbers (real) of the cuts of length 2
Segment(entry, committee_data, cuts, delete_last, real) ==
    IF real # << >> /\ CommitteeLookup(entry, committee_data) # ""
    THEN [raised |-> CommitteeLookup(entry, committee_data), output |-> << >>]
    ELSE IF \E k \in DOMAIN real : real[k] + 1 \notin DOMAIN cuts
         THEN [raised |-> "IndexError", output |-> << >>]
         ELSE Truncate([k \in DOMAIN real |-> Statement(entry, committee_data, cuts, real[k])],
                       delete_last)

segment_transcript(entry, committee_data, cuts, delete_last) ==
    Segment(entry, committee_data, cuts, delete_last,
            SortedSeq({i \in DOMAIN cuts : Len(cuts[i]) = 2}))

(***************************************************************************)
(* ParseHearing._assign_metadata: helpers.                                  *)
(*                                                                          *)
(* member_table maps a name tuple (here a key) to a record with             *)
(*   Name     the surnames n.split(',')[0] of the aliases, lower-cased      *)
(*   id, State, Chamber, Party     the merged metadata (sets of values)     *)
(*   cong     congress |-> sequence of committee facts, in the order of     *)
(*            the keys of the membership dictionary                         *)
(* A witness_meta entry is [text, words, phrase]: its words (lower-cased,   *)
(* punctuation stripped) and the legislator phrase its text contains.       *)
(***************************************************************************)
\* find_last_name: prefixes, brackets, blanks and punctuation stripped
\* (a label that keeps an "of ..." phrase is no surname of the model: "?")
find_last_name(l) == IF PrefixSearch[l] /\ l.of = "" THEN l.last ELSE "?"

\* statement_cutpoints[0][0]
FirstCut(cuts) == cuts[1][1]

\* chunks whose text lies entirely inside transcript[a:b]
Inside(tr, i, a, b) == Start(tr, i) >= a /\ Start(tr, i) + Width(tr[i]) <= b

\* find_chair: first chairman phrase in transcript[start - 1000:start]
\* lines 535-538: group(1) of the first match, or None
ChairOf(tr, hits) == IF hits = {} THEN None ELSE tr[First(hits)].l.last

find_chair(tr, cuts) ==
    ChairOf(tr, {i \in DOMAIN tr :
                    /\ tr[i].k = "chair"
                    /\ Inside(tr, i, PyIdx(FirstCut(cuts) - 1000, TLen(tr)),
                              PyIdx(FirstCut(cuts), TLen(tr)))})

\* find_member_list: the words of the joined result.group(3) texts.  Every
\* match holds the word "present", so the empty set stands for None.
NoList == {}

\* The regex needs a ".\n" after the marker, inside the first
\* max_search_length characters.
find_member_list(tr) ==
    LET stop(i) == \E j \in DOMAIN tr : /\ j > i
                                        /\ tr[j].k # "ilbl"
                                        /\ tr[j - 1].k # "pad"
                                        /\ Start(tr, j) + 1 <= max_search_length
        out == {i \in DOMAIN tr : tr[i].k = "pres" /\ stop(i)}
    IN IF out = {} THEN NoList ELSE {"present"}

\* lines 556-561
WithChair(chair, present_members) ==
    IF chair # None /\ present_members # NoList
    THEN present_members \cup {Lower[chair]}
    ELSE present_members

PresentMembers(tr, cuts) == WithChair(find_chair(tr, cuts), find_member_list(tr))

\* re.search('the chair(man|woman)', name, re.I)
IsChairLabel(l) == l.pre \in {"The Chairman", "The Chairwoman"}

\* lines 567-570
NameLast(l, chair) == IF IsChairLabel(l) /\ chair # None THEN chair ELSE find_last_name(l)

\* the alias test shared by lines 585-587, 604-605 and 662-663
AliasMatch(m, name_last) ==
    name_last \in DOMAIN Lower /\ \E n \in m.Name : Lower[name_last] = n

CodesOf(facts) == {facts[i].Code : i \in DOMAIN facts}

\* sub-sequence of s with the elements that satisfy Test
RECURSIVE SelectSeq2(_, _)
SelectSeq2(s, S) == IF s = << >> THEN << >>
                    ELSE (IF Head(s) \in S THEN <<Head(s)>> ELSE << >>) \o SelectSeq2(Tail(s), S)

FactFor(facts, code) == facts[CHOOSE i \in DOMAIN facts : facts[i].Code = code]

\* lines 584-594
member_table_matches(member_table, name_last, congress, committees, state) ==
    LET base == {k \in DOMAIN member_table :
                    /\ AliasMatch(member_table[k], name_last)
                    /\ congress \in DOMAIN member_table[k].cong
                    /\ \E i \in DOMAIN committees :
                          committees[i] \in CodesOf(member_table[k].cong[congress])}
    IN IF state # None
       THEN LET abbrev == states_abbrev[CHOOSE i \in DOMAIN states_long : states_long[i] = state]
            IN {k \in base : abbrev \in member_table[k].State}
       ELSE base

\* lines 597-599: indexes of the matching witness_meta entries
witness_name_matches(witness_meta, name_last) ==
    {i \in DOMAIN witness_meta :
        \E w \in witness_meta[i].words \cup {""} :
            Contains(w, IF name_last \in DOMAIN Lower THEN Lower[name_last] ELSE name_last)}

\* lines 603-609
guest_matches(member_table, name_last, congress, hearing_chamber, present_members) ==
    {k \in DOMAIN member_table :
        /\ AliasMatch(member_table[k], name_last)
        /\ hearing_chamber \in member_table[k].Chamber
        /\ congress \in DOMAIN member_table[k].cong
        /\ present_members # NoList
        /\ \E n \in member_table[k].Name : \E w \in present_members : Contains(w, n)}

\* lines 661-664
rep_list(member_table, name_last, congress) ==
    {k \in DOMAIN member_table :
        /\ AliasMatch(member_table[k], name_last)
        /\ congress \in DOMAIN member_table[k].cong}

\* the chunk holding the first line of transcript[:start] that mentions
\* name_last (lines 668-670); 0 when re.search finds nothing
Mentions(t, name_last) ==
    \/ t.k \in {"chair", "mric", "mrep", "mpln", "lbl", "ilbl"} /\ Lower[t.l.last] = Lower[name_last]
    \/ t.k = "pres" /\ Lower[name_last] \in {"smith", "jones"}

FirstOrNone(hits) == IF hits = {} THEN 0 ELSE First(hits)

name_line(tr, cuts, name_last) ==
    FirstOrNone({i \in DOMAIN tr :
                    /\ Mentions(tr[i], name_last)
                    /\ Inside(tr, i, 0, PyIdx(FirstCut(cuts), TLen(tr)))})

\* lines 672-674: first_word is cut at the first blank, so it never equals
\* 'Representative ' or 'Senator '
Confirmed(t) == t.k = "mric"

(***************************************************************************)
(* ParseHearing._assign_metadata: the cascade of lines 611-714 for one      *)
(* parsed statement p.  The result holds the values of the update of lines  *)
(* 719-722, the branch that produced them, and the exception raised.        *)
(***************************************************************************)
NA == "NA"

Outcome(branch, name_full, member_id, party, majority, party_seniority, leadership, person_chamber) ==
    [branch |-> branch, name_full |-> name_full, member_id |-> member_id, party |-> party,
     majority |-> majority, party_seniority |-> party_seniority, leadership |-> leadership,
     person_chamber |-> person_chamber, raised |-> ""]

Raise(exc) == [branch |-> None, name_full |-> None, member_id |-> None, party |-> None,
               majority |-> None, party_seniority |-> None, leadership |-> None,
               person_chamber |-> None, raised |-> exc]

\* lines 693-698, 701-706, 709-714 with lines 716-717
Unknown(hearing_chamber) == Outcome("unknown", NA, NA, NA, NA, NA, NA, hearing_chamber)

\* current_committees looked up in the member record instead of its congress
current_committees_NoCongress(committees, facts) == SelectSeq2(committees, {})

\* current_committees of lines 619 and 678
current_committees(committees, facts) == SelectSeq2(committees, CodesOf(facts))

\* MemberBranch with 'NA' whenever the legislator has more than one committee
\* in the congress, and the party of the matched committee
MemberBranch_AnySecondCommittee(member_table, k, congress, committees) ==
    LET facts == member_table[k].cong[congress]
        cur == current_committees(committees, facts)
    IN IF facts = << >> \/ cur = << >> THEN Raise("IndexError")
       ELSE LET one == Len(facts) = 1
                f == FactFor(facts, cur[1])
            IN Outcome("member", k, member_table[k].id, f.Party,
                       IF one THEN f.Majority ELSE NA,
                       IF one THEN f.Seniority ELSE NA,
                       IF one THEN f.Leadership ELSE NA,
                       f.Chamber)

\* lines 612-631
MemberBranch(member_table, k, congress, committees) ==
    LET facts == member_table[k].cong[congress]
        cur == current_committees(committees, facts)
    IN IF facts = << >> \/ cur = << >> THEN Raise("IndexError")
       ELSE LET one == Len(cur) = 1
                f == FactFor(facts, cur[1])
            IN Outcome("member", k, member_table[k].id, facts[1].Party,
                       IF one THEN f.Majority ELSE NA,
                       IF one THEN f.Seniority ELSE NA,
                       IF one THEN f.Leadership ELSE NA,
                       f.Chamber)

\* WitnessOK with the entries that name a legislator left out of the count
WitnessOK_SkipsLegislators(witness_meta, matches) ==
    Cardinality({i \in matches : witness_meta[i].phrase \notin
                                     {"Representative in Congress", "Senator"}}) = 1

\* lines 635-643
WitnessOK(witness_meta, matches) ==
    /\ Cardinality(matches) = 1
    /\ witness_meta[CHOOSE i \in matches : TRUE].phrase \notin
           {"Representative in Congress", "Senator"}

WitnessBranch(witness_meta, matches, hearing_chamber) ==
    Outcome("witness", witness_meta[CHOOSE i \in matches : TRUE].text, NA, "WITNESS",
            NA, NA, NA, hearing_chamber)

\* lines 646-656
GuestBranch(member_table, k, congress) ==
    LET facts == member_table[k].cong[congress]
    IN IF facts = << >> THEN Raise("IndexError")
       ELSE Outcome("guest", k, member_table[k].id, facts[1].Party, NA, NA, NA,
                    facts[1].Chamber)

\* lines 675-690: the legislator k of rep_list is taken
FallbackMember(member_table, k, congress, committees) ==
    LET facts == member_table[k].cong[congress]
        cur == current_committees(committees, facts)
        one == Len(cur) = 1
    IN Outcome("fallback", k, member_table[k].id, member_table[k].Party,
               IF one THEN FactFor(facts, cur[1]).Majority ELSE NA,
               IF one THEN FactFor(facts, cur[1]).Seniority ELSE NA,
               IF one THEN FactFor(facts, cur[1]).Leadership ELSE NA,
               member_table[k].Chamber)

\* lines 668-674: a line mentions the surname (no AttributeError) and
\* confirms the legislator
ConfirmedLine(tr, line) == line # 0 /\ Confirmed(tr[line])

\* FallbackBranch without the test of lines 672-674
FallbackBranch_Unconfirmed(entry, cuts, member_table, name_last, congress, committees, hearing_chamber) ==
    LET reps == rep_list(member_table, name_last, congress)
    IN IF Cardinality(reps) = 1
       THEN FallbackMember(member_table, CHOOSE x \in reps : TRUE, congress, committees)
       ELSE Unknown(hearing_chamber)

\* lines 660-714
FallbackBranch(entry, cuts, member_table, name_last, congress, committees, hearing_chamber) ==
    LET reps == rep_list(member_table, name_last, congress)
    IN IF /\ Cardinality(reps) = 1
          /\ ConfirmedLine(entry.transcript, name_line(entry.transcript, cuts, name_last))
       THEN FallbackMember(member_table, CHOOSE x \in reps : TRUE, congress, committees)
       ELSE Unknown(hearing_chamber)

\* Resolve with the witness test before the committee-member test
Resolve_WitnessFirst(p, entry, cuts, member_table, chair, present_members) ==
    LET name_last == NameLast(p.name_raw, chair)
        members == member_table_matches(member_table, name_last, p.congress, p.committees,
                                        p.state)
        witnesses == witness_name_matches(entry.witness_meta, name_last)
        guests == guest_matches(member_table, name_last, p.congress, p.hearing_chamber,
                                present_members)
    IN IF WitnessOK(entry.witness_meta, witnesses)
       THEN WitnessBranch(entry.witness_meta, witnesses, p.hearing_chamber)
       ELSE IF Cardinality(members) = 1
       THEN MemberBranch(member_table, CHOOSE k \in members : TRUE, p.congress, p.committees)
       ELSE IF Cardinality(guests) = 1
       THEN GuestBranch(member_table, CHOOSE k \in guests : TRUE, p.congress)
       ELSE FallbackBranch(entry, cuts, member_table, name_last, p.congress, p.committees,
                           p.hearing_chamber)

\* Resolve taking the first committee-member match when there are several
Resolve_AnyMember(p, entry, cuts, member_table, chair, present_members) ==
    LET name_last == NameLast(p.name_raw, chair)
        members == member_table_matches(member_table, name_last, p.congress, p.committees,
                                        p.state)
        witnesses == witness_name_matches(entry.witness_meta, name_last)
        guests == guest_matches(member_table, name_last, p.congress, p.hearing_chamber,
                                present_members)
    IN IF Cardinality(members) >= 1
       THEN MemberBranch(member_table, CHOOSE k \in members : TRUE, p.congress, p.committees)
       ELSE IF WitnessOK(entry.witness_meta, witnesses)
       THEN WitnessBranch(entry.witness_meta, witnesses, p.hearing_chamber)
       ELSE IF Cardinality(guests) = 1
       THEN GuestBranch(member_table, CHOOSE k \in guests : TRUE, p.congress)
       ELSE FallbackBranch(entry, cuts, member_table, name_last, p.congress, p.committees,
                           p.hearing_chamber)

Resolve(p, entry, cuts, member_table, chair, present_members) ==
    LET name_last == NameLast(p.name_raw, chair)
        committees == p.committees
        hearing_chamber == p.hearing_chamber
        congress == p.congress
        members == member_table_matches(member_table, name_last, congress, committees, p.state)
        witnesses == witness_name_matches(entry.witness_meta, name_last)
        guests == guest_matches(member_table, name_last, congress, hearing_chamber,
                                present_members)
    IN IF Cardinality(members) = 1
       THEN MemberBranch(member_table, CHOOSE k \in members : TRUE, congress, committees)
       ELSE IF WitnessOK(entry.witness_meta, witnesses)
       THEN WitnessBranch(entry.witness_meta, witnesses, hearing_chamber)
       ELSE IF Cardinality(guests) = 1
       THEN GuestBranch(member_table, CHOOSE k \in guests : TRUE, congress)
       ELSE FallbackBranch(entry, cuts, member_table, name_last, congress, committees,
                           hearing_chamber)

\* lines 719-722
Updated(p, r) == [p EXCEPT !.name_full = r.name_full, !.member_id = r.member_id,
                           !.party = r.party, !.majority = r.majority,
                           !.person_chamber = r.person_chamber,
                           !.party_seniority = r.party_seniority,
                           !.leadership = r.leadership, !.branch = r.branch]

\* the loop of line 563: statements are updated in order until one raises
RECURSIVE AssignFrom(_, _, _, _, _, _, _)

\* one pass of the loop body with the outcome r of the cascade
AssignStep(parsed, i, r, entry, cuts, member_table, chair, present_members) ==
    IF r.raised # "" THEN [raised |-> r.raised, parsed |-> parsed]
    ELSE AssignFrom([parsed EXCEPT ![i] = Updated(parsed[i], r)], i + 1, entry, cuts,
                    member_table, chair, present_members)

AssignFrom(parsed, i, entry, cuts, member_table, chair, present_members) ==
    IF i > Len(parsed) THEN [raised |-> "", parsed |-> parsed]
    ELSE AssignStep(parsed, i,
                    Resolve(parsed[i], entry, cuts, member_table, chair, present_members),
                    entry, cuts, member_table, chair, present_members)

assign_metadata(entry, cuts, parsed, member_table) ==
    IF cuts = << >> THEN [raised |-> "IndexError", parsed |-> parsed]
    ELSE AssignFrom(parsed, 1, entry, cuts, member_table,
                    find_chair(entry.transcript, cuts),
                    PresentMembers(entry.transcript, cuts))

(***************************************************************************)
(* ParseHearing.__init__: the object it builds, or the exception that       *)
(* leaves the constructor.                                                  *)
(***************************************************************************)
\* line 273
CommitteeMissing(entry, committee_data) ==
    \E i \in DOMAIN entry.committees :
        CKey(entry.chamber, entry.committees[i]) \notin DOMAIN committee_data

Hearing(entry, raised, started, sessions, cuts, delete_last, parsed, warned, assigned) ==
    [entry |-> entry, raised |-> raised, started |-> started,
     session_cutpoints |-> sessions, statement_cutpoints |-> cuts,
     delete_last |-> delete_last, parsed |-> parsed, warned |-> warned,
     assigned |-> assigned]

\* line 283, with the result am of _assign_metadata
Assigned(entry, fs, cuts, am) ==
    Hearing(entry, am.raised, TRUE, fs.cutpoints, cuts, fs.delete_last, am.parsed, FALSE,
            am.raised = "")

\* lines 270-283, with the result seg of _segment_transcript
Segmented(entry, committee_data, member_table, fs, cuts, seg) ==
    IF seg.raised # ""
    THEN Hearing(entry, seg.raised, TRUE, fs.cutpoints, cuts, fs.delete_last, << >>, FALSE,
                 FALSE)
    ELSE IF CommitteeMissing(entry, committee_data)
    THEN Hearing(entry, "", TRUE, fs.cutpoints, cuts, fs.delete_last, seg.output, TRUE, FALSE)
    ELSE Assigned(entry, fs, cuts, assign_metadata(entry, cuts, seg.output, member_table))

\* lines 269-283, with the result cuts of _find_statements
Cut(entry, committee_data, member_table, fs, cuts) ==
    Segmented(entry, committee_data, member_table, fs, cuts,
              segment_transcript(entry, committee_data, cuts, fs.delete_last))

\* lines 268-283, with the result fs of _find_sessions
Started(entry, committee_data, member_table, fs) ==
    Cut(entry, committee_data, member_table, fs,
        find_statements(entry.transcript, fs.cutpoints))

\* index of the first '[Questions for the record with answers supplied
\* follow:]' chunk of text, 0 when there is none
QuestionsMark(text) ==
    IF \A i \in DOMAIN text : text[i].k # "qfr" THEN 0
    ELSE CHOOSE i \in DOMAIN text :
            /\ text[i].k = "qfr"
            /\ \A m \in 1..(i - 1) : text[m].k # "qfr"

\* clean_hearing that takes the marker out and keeps the text after it
clean_hearing_RemovesMarker(text) ==
    IF QuestionsMark(text) = 0 THEN text
    ELSE SubSeq(text, 1, QuestionsMark(text) - 1)
         \o SubSeq(text, QuestionsMark(text) + 1, Len(text))

\* lines 232-240: the text up to the first marker
clean_hearing(text) ==
    IF QuestionsMark(text) = 0 THEN text
    ELSE SubSeq(text, 1, QuestionsMark(text) - 1)

\* lines 242-243: the entry with its transcript replaced by the cleaned one
CleanEntry(entry) == [entry EXCEPT !.transcript = clean_hearing(entry.transcript)]

\* lines 266-288 on the cleaned entry
Parsed(entry, committee_data, member_table) ==
    IF ~name_search(entry.transcript, 0, TLen(entry.transcript)).found
    THEN Hearing(entry, "", FALSE, << >>, << >>, FALSE, << >>, FALSE, FALSE)
    ELSE Started(entry, committee_data, member_table, find_sessions(entry.transcript))

\* lines 266-288 without the test of line 266
Parsed_AlwaysStarts(entry, committee_data, member_table) ==
    Started(entry, committee_data, member_table, find_sessions(entry.transcript))

\* ParseHearing without the test of line 266
ParseHearing_AlwaysStarts(entry, committee_data, member_table) ==
    Parsed_AlwaysStarts(CleanEntry(entry), committee_data, member_table)

ParseHearing(entry, committee_data, member_table) ==
    Parsed(CleanEntry(entry), committee_data, member_table)

(***************************************************************************)
(* Reference data and inputs of the model.                                  *)
(***************************************************************************)
\* committee_data.csv: informal name |-> code and chamber
CommitteeData ==
    [key \in {CKey("HOUSE", "Judiciary"), CKey("HOUSE", "Agriculture")} |->
        IF key[2] = "Judiciary" THEN [Code |-> "HJUD", Chamber |-> "HOUSE"]
        ELSE [Code |-> "HAGR", Chamber |-> "HOUSE"]]

\* one row of Stewart's data, as stored by Scraper._update_stewart_meta
Fact(code, party, chamber) ==
    [Code |-> code, Party |-> party, Chamber |-> chamber,
     Majority |-> IF code = "HJUD" THEN "1" ELSE "0",
     Seniority |-> IF code = "HJUD" THEN "3" ELSE "7",
     Leadership |-> IF code = "HJUD" THEN "0" ELSE "2"]

\* a legislator who sits on the committees codes (in that order) in congress 113
Member(id, surname, state, chamber, party, codes) ==
    [id |-> id, Name |-> {surname}, State |-> {state}, Chamber |-> {chamber},
     Party |-> {party},
     cong |-> IF codes = << >> THEN [c \in {"112"} |-> << Fact("HJUD", party, chamber) >>]
              ELSE [c \in {"113"} |-> [i \in DOMAIN codes |-> Fact(codes[i], party, chamber)]]]

CodeLists == { << >>, <<"HJUD">>, <<"HAGR">>, <<"HJUD", "HAGR">> }

\* the member table of the segmentation runs
SegTables == { [k \in {"n1"} |-> Member("1", "smith", "TX", "HOUSE", "R", <<"HJUD">>)] }

\* the legislator m whose first committee row of a congress carries the party
\* "D" (a row of Stewart's data entered before a change of party)
SwitchedParty(m) ==
    [m EXCEPT !.Party = @ \cup {"D"},
              !.cong = [c \in DOMAIN m.cong |->
                           [i \in DOMAIN m.cong[c] |->
                               IF i = 1 THEN [m.cong[c][i] EXCEPT !.Party = "D"]
                               ELSE m.cong[c][i]]]]

\* the first legislator of the resolution runs
FirstMembers ==
    {Member("1", "smith", st1, "HOUSE", "R", c1) : st1 \in {"TX", "NY"}, c1 \in CodeLists}
    \cup {SwitchedParty(Member("1", "smith", "TX", "HOUSE", "R", <<"HAGR", "HJUD">>))}

\* the member tables of the resolution runs: two legislators
ResTables ==
    { [k \in {"n1", "n2"} |-> IF k = "n1" THEN m1
                                ELSE Member("2", sur2, "TX", ch2, "D", c2)] :
        m1 \in FirstMembers, sur2 \in {"smith", "jones"},
        ch2 \in {"HOUSE", "SENATE"}, c2 \in { << >>, <<"HJUD">> } }

MrSmith == Label("Mr.", "Smith", "")

\* the chunks of the segmentation runs
SegToks == {Tok(k, NoLabel) : k \in {"met", "adj", "nl"}}
           \cup {Tok(k, MrSmith) : k \in {"lbl", "ilbl"}}

Transcripts(n) == UNION {[1..m -> SegToks] : m \in 1..n}

\* transcripts with plain text lines, and longer than max_search_length
LongTranscripts == { <<Tok("txt", NoLabel), Tok("lbl", MrSmith), Tok("txt", NoLabel),
                       Tok("ilbl", MrSmith)>>,
                     <<Tok("pad", NoLabel), Tok("lbl", MrSmith)>>,
                     <<Tok("met", NoLabel), Tok("lbl", MrSmith), Tok("pad", NoLabel),
                       Tok("lbl", MrSmith), Tok("adj", NoLabel)>> }

\* transcripts with more openings than closing markers, and one closing marker
SessionTranscripts == { <<Tok("met", NoLabel), Tok("lbl", MrSmith), Tok("adj", NoLabel),
                          Tok("met", NoLabel), Tok("lbl", MrSmith)>>,
                        <<Tok("met", NoLabel), Tok("met", NoLabel), Tok("met", NoLabel),
                          Tok("lbl", MrSmith), Tok("adj", NoLabel)>> }

\* labels the name regex matches: one that starts with no listed prefix but
\* passes the prefix pattern 'Gen.', one that starts with no prefix at all,
\* one of six words
GeneSmith == Label("Gene", "Smith", "")
MaryJones == Label("Mary", "Jones", "")
SixWords == Label("Mr. Van Der Meer De", "Smith", "")

\* transcripts whose label names a state, in two letter cases, a state whose
\* name holds the name of another state, and a speaker named as a state is
StateTranscripts ==
    { <<Tok("met", NoLabel), Tok("lbl", l), Tok("adj", NoLabel)>> :
        l \in {Label("Mr.", "Smith", "Texas"), Label("Mr.", "Smith", "TEXAS"),
               Label("Mr.", "Smith", "Arkansas"), Label("Mr.", "Texas", ""),
               Label("Mr.", "Texas", "Texas")} }

NameTranscripts == { <<Tok("met", NoLabel), Tok("lbl", GeneSmith), Tok("adj", NoLabel)>>,
                     <<Tok("met", NoLabel), Tok("lbl", MaryJones), Tok("adj", NoLabel)>>,
                     <<Tok("met", NoLabel), Tok("lbl", MaryJones), Tok("lbl", MrSmith),
                       Tok("adj", NoLabel)>>,
                     <<Tok("met", NoLabel), Tok("lbl", SixWords), Tok("lbl", MrSmith),
                       Tok("adj", NoLabel)>>,
                     <<Tok("met", NoLabel), Tok("lbl", SixWords), Tok("adj", NoLabel)>> }

\* transcripts with the marker that clean_hearing looks for
MarkedTranscripts == { <<Tok("met", NoLabel), Tok("lbl", MrSmith), Tok("qfr", NoLabel),
                         Tok("lbl", MrSmith), Tok("adj", NoLabel)>>,
                       <<Tok("met", NoLabel), Tok("lbl", MrSmith), Tok("nl", NoLabel),
                         Tok("adj", NoLabel), Tok("qfr", NoLabel),
                         Tok("met", NoLabel), Tok("lbl", MrSmith), Tok("qfr", NoLabel),
                         Tok("lbl", MrSmith)>>,
                       <<Tok("qfr", NoLabel), Tok("lbl", MrSmith)>> }

Entry(id, tr, committees, witness_meta) ==
    [id |-> id, transcript |-> tr, chamber |-> "HOUSE", congress |-> "113",
     committees |-> committees, witness_meta |-> witness_meta]

SegEntries(id) ==
    {Entry(id, tr, cs, << >>) :
        tr \in Transcripts(MaxLen) \cup LongTranscripts \cup MarkedTranscripts
                  \cup SessionTranscripts \cup NameTranscripts \cup StateTranscripts,
        cs \in { <<"Judiciary">>, <<"Unlisted">> }}
    \cup {Entry(id, <<Tok("met", NoLabel), Tok("lbl", MrSmith), Tok("adj", NoLabel)>>, << >>, << >>)}

\* witness_meta entries
Witness(text, words, phrase) == [text |-> text, words |-> words, phrase |-> phrase]
WSmith == Witness("Mr. John Smith, Acme Corp.", {"mr", "john", "smith", "acme", "corp"}, "")
WSmith2 == Witness("Ms. Ann Smith, Esq.", {"ms", "ann", "smith", "esq"}, "")
WSmithRep == Witness("Hon. John Smith, a Representative in Congress from Texas",
                     {"hon", "john", "smith", "a", "representative", "in", "congress", "from",
                      "texas"}, "Representative in Congress")
WJones == Witness("Dr. Jones", {"dr", "jones"}, "")

WitnessLists == { << >>, <<WSmith>>, <<WSmithRep>>, <<WSmith, WSmith2>>, <<WSmith, WSmithRep>>,
                  <<WJones>> }

ResLabels == { MrSmith, Label("Mr.", "Smith", "Texas"), Label("The Chairman", "", ""),
               Label("Voice", "", ""), Label("Ms.", "Jones", "") }

Smith == Label("", "Smith", "")

\* front matter: an optional mention of Smith, chairman phrase and present line
FrontMatters ==
    { m \o c \o pr :
        m \in { << >>, <<Tok("mric", Smith)>>, <<Tok("mrep", Smith)>>, <<Tok("mpln", Smith)>> },
        c \in { << >>, <<Tok("chair", Smith)>> },
        pr \in { << >>, <<Tok("pres", NoLabel)>> } }

ResEntries(id) ==
    {Entry(id, fm \o <<Tok("met", NoLabel), Tok("lbl", l), Tok("adj", NoLabel)>>, cs, ws) :
        fm \in FrontMatters, l \in ResLabels,
        cs \in { <<"Judiciary">>, <<"Judiciary", "Agriculture">> }, ws \in WitnessLists}

(***************************************************************************)
(* Parser.parse_gpo_hearings.                                               *)
(***************************************************************************)
VARIABLES member_table, committee_data, id_values, rows, j, output, results, pc, hearing

\* Parser.create_dataset: its arguments, its lists corpus and keep, the rows
\* it wrote to the corpus and index files, and the exception it raised
VARIABLES args, corpus, keep, written, error

dataset_vars == <<args, corpus, keep, written, error>>

\* Scraper.scrape: self.searched, the lists old_links and new_links, the
\* position of the for loop in old_links, the urls of the rows of the
\* hearings table, and what the crawl did so far: the number of calls of
\* _save_data and of page fetches per url, and of reported duplicate keys
VARIABLES searched, old_links, new_links, link, hearings, saves, fetches, reported

scrape_vars == <<searched, old_links, new_links, link, hearings, saves, fetches, reported>>

vars == <<member_table, committee_data, id_values, rows, j, output, results, pc, hearing,
          dataset_vars, scrape_vars>>

\* no Scraper built
NoScraper ==
    /\ searched = << >>
    /\ old_links = << >>
    /\ new_links = << >>
    /\ link = 0
    /\ hearings = {}
    /\ saves = << >>
    /\ fetches = << >>
    /\ reported = 0

\* no ParseHearing object built yet
NoHearing == Hearing(Entry(0, << >>, << >>, << >>), "", FALSE, << >>, << >>, FALSE, << >>,
                     FALSE, FALSE)

\* line 130: min_token_length=3, min_doc_length=5, min_dic_count=5
DefaultArgs == [min_token_length |-> 3, min_doc_length |-> 5, min_dic_count |-> 5]

\* no row written to the corpus csv nor to the index csv
NothingWritten == [corpus |-> << >>, index |-> << >>]

InitWith(tables, maxIds) ==
    /\ member_table \in tables
    /\ committee_data = CommitteeData
    /\ id_values \in {[i \in 1..n |-> i] : n \in 0..maxIds}
    /\ rows = [i \in DOMAIN id_values |-> "unread"]
    /\ j = 1
    /\ output = << >>
    /\ results = << >>
    /\ pc = "loop"
    /\ hearing = NoHearing
    /\ args = DefaultArgs
    /\ corpus = << >>
    /\ keep = << >>
    /\ written = NothingWritten
    /\ error = ""
    /\ NoScraper

Init == InitWith(SegTables, MaxIds)

InitRes == InitWith(ResTables, 1)

\* lines 100-104: the row of id_values[j] is found and ParseHearing runs on
\* it; an exception leaves parse() and parse_gpo_hearings
\* ParseFound with committee lookups that take the rows out of committee_data
ParseFound_PopsCommittees(entry) ==
    /\ pc = "loop"
    /\ j <= Len(id_values)
    /\ hearing' = ParseHearing(entry, committee_data, member_table)
    /\ pc' = IF hearing'.raised = "" THEN "append" ELSE "raised"
    /\ rows' = [rows EXCEPT ![j] = "found"]
    /\ committee_data' =
          [key \in DOMAIN committee_data \
                      {CKey(entry.chamber, entry.committees[c]) : c \in DOMAIN entry.committees}
              |-> committee_data[key]]
    /\ UNCHANGED <<member_table, id_values, j, output, results>>
    /\ UNCHANGED <<dataset_vars, scrape_vars>>

\* lines 99-104: the row of id_values[j] is found and parsed
ParseFound(entry) ==
    /\ pc = "loop"
    /\ j <= Len(id_values)
    /\ hearing' = ParseHearing(entry, committee_data, member_table)
    /\ pc' = IF hearing'.raised = "" THEN "append" ELSE "raised"
    /\ rows' = [rows EXCEPT ![j] = "found"]
    /\ UNCHANGED <<member_table, committee_data, id_values, j, output, results>>
    /\ UNCHANGED <<dataset_vars, scrape_vars>>

ParseSeg == /\ j <= Len(id_values)
            /\ \E entry \in SegEntries(id_values[j]) : ParseFound(entry)

ParseRes == /\ j <= Len(id_values)
            /\ \E entry \in ResEntries(id_values[j]) : ParseFound(entry)

\* line 105: output.append(parsed); the ParseHearing object is dropped
AppendParsed ==
    /\ pc = "append"
    /\ output' = Append(output, hearing.parsed)
    /\ j' = j + 1
    /\ pc' = "loop"
    /\ hearing' = NoHearing
    /\ UNCHANGED <<member_table, committee_data, id_values, rows, results>>
    /\ UNCHANGED <<dataset_vars, scrape_vars>>

\* ParseMissing with the else branch appending an empty record list
ParseMissing_Appends ==
    /\ pc = "loop"
    /\ j <= Len(id_values)
    /\ rows' = [rows EXCEPT ![j] = "missing"]
    /\ output' = Append(output, << >>)
    /\ j' = j + 1
    /\ UNCHANGED <<member_table, committee_data, id_values, results, pc, hearing>>
    /\ UNCHANGED <<dataset_vars, scrape_vars>>

\* lines 106-107: no row for id_values[j]
ParseMissing ==
    /\ pc = "loop"
    /\ j <= Len(id_values)
    /\ rows' = [rows EXCEPT ![j] = "missing"]
    /\ j' = j + 1
    /\ UNCHANGED <<member_table, committee_data, id_values, output, results, pc, hearing>>
    /\ UNCHANGED <<dataset_vars, scrape_vars>>

\* lines 110 and 128: self.results = parse(...)
Finish ==
    /\ pc = "loop"
    /\ j > Len(id_values)
    /\ results' = output
    /\ pc' = "done"
    /\ UNCHANGED <<member_table, committee_data, id_values, rows, j, output, hearing>>
    /\ UNCHANGED <<dataset_vars, scrape_vars>>

Next == ParseSeg \/ AppendParsed \/ ParseMissing \/ Finish

NextRes == ParseRes \/ AppendParsed \/ ParseMissing \/ Finish

Spec == Init /\ [][Next]_vars

SpecRes == InitRes /\ [][NextRes]_vars

(***************************************************************************)
(* Parser.create_dataset.  A cleaned statement is a sequence of raw words; *)
(* results holds, per hearing, the sequence of its rows.                   *)
(***************************************************************************)
MaxHearings == 2     \* longest results list handed to create_dataset
MaxRows == 2         \* most statements of one hearing

\* line 156: the stop words among the words of the model
stop_list == {"the"}

\* line 176: row['cleaned'].lower().translate(trans_table), word by word
Normal == [w \in {"Budget,", "health", "energy", "the", "tax"} |->
              IF w = "Budget," THEN "budget" ELSE w]

\* len(w) of the normalised words
WordLen == [w \in {"budget", "health", "energy", "the", "tax"} |->
               IF w \in {"the", "tax"} THEN 3 ELSE 6]

\* lines 176-177: the document of a cleaned statement
Doc(cleaned, min_token_length) ==
    LET Kept(w) == WordLen[w] > min_token_length /\ w \notin stop_list
    IN  SelectSeq([k \in DOMAIN cleaned |-> Normal[cleaned[k]]], Kept)

\* lines 173, 175: the rows of hearing i the loop visits
ContentRows(res, i) ==
    IF Len(res[i]) > 1 THEN [n \in DOMAIN res[i] |-> [i |-> i, n |-> n]] ELSE << >>

RECURSIVE LoopRows(_, _)

\* line 172: the rows visited from hearing i on, in order
LoopRows(res, i) ==
    IF i > Len(res) THEN << >> ELSE ContentRows(res, i) \o LoopRows(res, i + 1)

\* line 179: the visited rows whose document is appended to documents
DocumentRows(res, a) ==
    LET Long(s) == Len(Doc(res[s.i][s.n].cleaned, a.min_token_length)) > a.min_doc_length
    IN  SelectSeq(LoopRows(res, 1), Long)

\* lines 181-182: ','.join(row[key]) raises TypeError on 'committees' when
\* the row was updated at lines 719-722, where it became (committees,)
JoinFails(res, srcs) == \E k \in DOMAIN srcs : res[srcs[k].i][srcs[k].n].updated

\* line 180: documents
Documents(res, a, srcs) ==
    [k \in DOMAIN srcs |-> Doc(res[srcs[k].i][srcs[k].n].cleaned, a.min_token_length)]

\* lines 188-190: the tokens left in dic, those found in at least
\* min_dic_count documents (no_above=1 keeps every such token)
Dic(documents, min_dic_count) ==
    {w \in UNION {Range(documents[k]) : k \in DOMAIN documents} :
        Cardinality({k \in DOMAIN documents : w \in Range(documents[k])}) >= min_dic_count}

\* line 197: len(dic.doc2bow(doc)), the number of distinct tokens of doc in dic
BowLen(doc, dic) == Cardinality(Range(doc) \cap dic)

\* lines 196-198: the documents that pass the second filter
KeptDocs(documents, dic, min_doc_length) ==
    LET ks == {k \in DOMAIN documents : BowLen(documents[k], dic) > min_doc_length}
    IN  SortedSeq(ks)

\* lines 199-200: corpus and keep get one entry each per kept document
CorpusOf(res, srcs, documents, dic, kept) ==
    [m \in DOMAIN kept |-> [i |-> srcs[kept[m]].i, n |-> srcs[kept[m]].n,
                            words |-> Range(documents[kept[m]]) \cap dic]]

KeepOf(res, srcs, documents, dic, kept) ==
    [m \in DOMAIN kept |-> [i |-> srcs[kept[m]].i, n |-> srcs[kept[m]].n,
                            jacket |-> res[srcs[kept[m]].i][srcs[kept[m]].n].jacket,
                            word_count |-> BowLen(documents[kept[m]], dic)]]

\* UnicodeWriter.writerow: the cells are encoded to bytes, the queue returns a
\* str and data.decode raises AttributeError before anything reaches the stream
writerow(stream, row) == [raised |-> "AttributeError", stream |-> stream]

RECURSIVE writerows(_, _)

\* UnicodeWriter.writerows: writerow for each row, until one raises
writerows(stream, rws) ==
    IF rws = << >> THEN [raised |-> "", stream |-> stream]
    ELSE IF writerow(stream, Head(rws)).raised # "" THEN writerow(stream, Head(rws))
    ELSE writerows(writerow(stream, Head(rws)).stream, Tail(rws))

\* lines 204-213: the corpus file, then the header and the rows of the index
Write(crp, kp) ==
    IF writerows(<< >>, crp).raised # ""
    THEN [raised |-> writerows(<< >>, crp).raised,
          written |-> [corpus |-> writerows(<< >>, crp).stream, index |-> << >>]]
    ELSE IF writerow(<< >>, "header").raised # ""
    THEN [raised |-> writerow(<< >>, "header").raised,
          written |-> [corpus |-> writerows(<< >>, crp).stream,
                       index |-> writerow(<< >>, "header").stream]]
    ELSE [raised |-> writerows(writerow(<< >>, "header").stream, kp).raised,
          written |-> [corpus |-> writerows(<< >>, crp).stream,
                       index |-> writerows(writerow(<< >>, "header").stream, kp).stream]]

\* lines 188-213, once documents and index are built
Filtered(res, a, srcs, documents, dic) ==
    [corpus |-> CorpusOf(res, srcs, documents, dic,
                         KeptDocs(documents, dic, a.min_doc_length)),
     keep |-> KeepOf(res, srcs, documents, dic,
                     KeptDocs(documents, dic, a.min_doc_length))]

Written(f) == [corpus |-> f.corpus, keep |-> f.keep,
               written |-> Write(f.corpus, f.keep).written,
               error |-> Write(f.corpus, f.keep).raised]

\* lines 169-213 for the document rows srcs
DatasetFrom(res, a, srcs) ==
    IF JoinFails(res, srcs)
    THEN [corpus |-> << >>, keep |-> << >>, written |-> NothingWritten,
          error |-> "TypeError"]
    ELSE Written(Filtered(res, a, srcs, Documents(res, a, srcs),
                          Dic(Documents(res, a, srcs), a.min_dic_count)))

\* the outcome of create_dataset(results, args)
Dataset(res, a) ==
    IF res = << >>
    THEN [corpus |-> << >>, keep |-> << >>, written |-> NothingWritten, error |-> ""]
    ELSE DatasetFrom(res, a, DocumentRows(res, a))

\* the cleaned statements of the model: no token, one token, two distinct
\* tokens, three equal tokens
Cleaned == {<<"the", "tax">>, <<"the", "health">>, <<"Budget,", "health">>,
            <<"energy", "energy", "energy">>}

\* a row of results reduced to what create_dataset reads of it
Row(jacket, cleaned, updated) == [jacket |-> jacket, cleaned |-> cleaned, updated |-> updated]

\* the hearings: up to maxRows statements, updated by _assign_metadata or not
Shapes(maxRows) ==
    UNION {{[updated |-> u, texts |-> t] : u \in BOOLEAN, t \in [1..m -> Cleaned]} :
              m \in 0..maxRows}

\* the results list whose hearing i has the shape f[i] and the jacket i
ResultsOf(f) ==
    [i \in DOMAIN f |-> [n \in DOMAIN f[i].texts |-> Row(i, f[i].texts[n], f[i].updated)]]

CorpusArgs == {[min_token_length |-> 3, min_doc_length |-> 1, min_dic_count |-> c] :
                  c \in {1, 2}}

InitCorpus ==
    /\ member_table \in SegTables
    /\ committee_data = CommitteeData
    /\ id_values = << >>
    /\ rows = << >>
    /\ j = 1
    /\ output = << >>
    /\ \E h \in 0..MaxHearings :
          \E f \in [1..h -> Shapes(MaxRows)] : results = ResultsOf(f)
    /\ pc = "done"
    /\ hearing = NoHearing
    /\ args \in CorpusArgs
    /\ corpus = << >>
    /\ keep = << >>
    /\ written = NothingWritten
    /\ error = ""
    /\ NoScraper

create_dataset ==
    /\ pc = "done"
    /\ \E d \in {Dataset(results, args)} :
          /\ corpus' = d.corpus
          /\ keep' = d.keep
          /\ written' = d.written
          /\ error' = d.error
    /\ pc' = "dataset"
    /\ UNCHANGED <<member_table, committee_data, id_values, rows, j, output, results,
                   hearing, args>>
    /\ UNCHANGED scrape_vars

NextCorpus == create_dataset

SpecCorpus == InitCorpus /\ [][NextCorpus]_vars

(***************************************************************************)
(* Scraper.scrape (scrape.py).  A page is the list of its <a> elements that *)
(* have an onclick attribute; what a fetch returns is chosen when the page  *)
(* is fetched.                                                              *)
(***************************************************************************)
MaxPages == 1        \* navigation pages besides the initial page
MaxLinks == 2        \* most links with an onclick attribute on one page
MaxCount == 3        \* calls and fetches per url are counted up to this number

Url(kind, n) == <<kind, n>>

\* line 63
initial_link == Url("page", 0)

\* the metadata url of the hearing that the pages of the site link to, and
\* the one of a hearing that they do not link to
DetailUrls == {Url("details", 1)}
OldUrl == Url("details", 2)

PageUrls == {Url("page", n) : n \in 0..MaxPages}

\* an <a> element: k is "more" when its onclick holds 'Browse More
\* Information' (url is then meta_url, lines 79-80), "nav" when it does not
\* and link.string is None (url is then the url of line 96), "text" when it
\* does not and link.string is a text
Link(k, url) == [k |-> k, url |-> url]

Links == {Link("more", u) : u \in DetailUrls} \cup {Link("nav", u) : u \in PageUrls}
         \cup {Link("text", initial_link)}

\* what a fetch of a page can return: lines 65-66 and 102-103
Pages == UNION {[1..n -> Links] : n \in 0..MaxLinks}

\* urlopen raised
Refused == <<Link("refused", initial_link)>>

\* a row of the hearings table: its primary key and its url column
HearingRow(id, url) == [id |-> id, url |-> url]

\* hearing_meta['Identifier'] of the metadata pages
Ids == {"CHRG-1", "CHRG-2"}

\* the hearings table when the Scraper is built
Tables == { {}, {HearingRow("CHRG-1", Url("details", 1))}, {HearingRow("CHRG-1", OldUrl)} }

\* what lines 216-234 of _save_data come to: the record identifier of the
\* metadata page, or an exception that leaves the method before the insert
\* (urlopen, a page without a 'MODS' or 'Text' link, and line 224, where
\* re.sub with a str pattern raises TypeError on the bytes read() returns)
SaveResults == Ids \cup {"raised"}

\* lines 236-254: the insert, and the rollback when the key is in the table
Inserted(table, id, url) ==
    IF \E row \in table : row.id = id THEN table ELSE table \cup {HearingRow(id, url)}

Count(counts, url) == IF url \in DOMAIN counts THEN counts[url] ELSE 0

\* one more call for url, counted up to MaxCount
Counted(counts, url) ==
    [u \in DOMAIN counts \cup {url} |->
        IF u = url THEN Min(Count(counts, url) + 1, MaxCount) ELSE counts[u]]

\* lines 55-56: self.searched of a Scraper built on a hearings table with
\* the rows of the hearings numbered in stored
InitScrape ==
    /\ member_table = << >>
    /\ committee_data = << >>
    /\ id_values = << >>
    /\ rows = << >>
    /\ j = 1
    /\ output = << >>
    /\ results = << >>
    /\ hearing = NoHearing
    /\ args = DefaultArgs
    /\ corpus = << >>
    /\ keep = << >>
    /\ written = NothingWritten
    /\ error = ""
    /\ hearings \in Tables
    /\ searched \in {urls \in [1..Cardinality(hearings) -> {row.url : row \in hearings}] :
                        Range(urls) = {row.url : row \in hearings}}
    /\ old_links = << >>
    /\ new_links = << >>
    /\ link = 0
    /\ saves = << >>
    /\ fetches = << >>
    /\ reported = 0
    /\ pc = "scrape"

parser_vars == <<member_table, committee_data, id_values, rows, j, output, results, hearing>>

\* lines 63-66: the initial page is fetched
Open ==
    /\ pc = "scrape"
    /\ fetches' = Counted(fetches, initial_link)
    /\ \E page \in Pages \cup {Refused} :
          IF page = Refused
          THEN pc' = "raised" /\ UNCHANGED new_links
          ELSE pc' = "while" /\ new_links' = page
    /\ UNCHANGED <<searched, old_links, link, hearings, saves, reported>>
    /\ UNCHANGED <<parser_vars, dataset_vars>>

\* lines 71-75: a round of the while loop begins
Round ==
    /\ pc = "while"
    /\ new_links # << >>
    /\ old_links' = new_links
    /\ new_links' = << >>
    /\ link' = 1
    /\ pc' = "for"
    /\ UNCHANGED <<searched, hearings, saves, fetches, reported>>
    /\ UNCHANGED <<parser_vars, dataset_vars>>

\* lines 72-75, 90-91: no link was collected, the loop is left
Break ==
    /\ pc = "while"
    /\ new_links = << >>
    /\ old_links' = << >>
    /\ pc' = "done"
    /\ UNCHANGED <<searched, new_links, link, hearings, saves, fetches, reported>>
    /\ UNCHANGED <<parser_vars, dataset_vars>>

\* the for loop of line 76 goes to its next link, or ends
Advance ==
    IF link < Len(old_links) THEN link' = link + 1 /\ pc' = "for"
    ELSE link' = 0 /\ pc' = "while"

\* Save with no test of self.searched at line 82
Save_Unconditional ==
    /\ pc = "for"
    /\ old_links[link].k = "more"
    /\ saves' = Counted(saves, old_links[link].url)
    /\ \E result \in SaveResults :
          IF result = "raised"
          THEN pc' = "raised" /\ UNCHANGED <<searched, link, hearings, reported>>
          ELSE /\ hearings' = Inserted(hearings, result, old_links[link].url)
               /\ reported' = IF hearings' = hearings THEN Min(reported + 1, MaxCount)
                               ELSE reported
               /\ searched' = Append(searched, old_links[link].url)
               /\ Advance
    /\ UNCHANGED <<old_links, new_links, fetches>>
    /\ UNCHANGED <<parser_vars, dataset_vars>>

\* lines 78-86 and 236-254: a hearing link whose meta_url is not in
\* self.searched is handed to _save_data
Save ==
    /\ pc = "for"
    /\ old_links[link].k = "more"
    /\ old_links[link].url \notin Range(searched)
    /\ saves' = Counted(saves, old_links[link].url)
    /\ \E result \in SaveResults :
          IF result = "raised"
          THEN pc' = "raised" /\ UNCHANGED <<searched, link, hearings, reported>>
          ELSE /\ hearings' = Inserted(hearings, result, old_links[link].url)
               /\ reported' = IF hearings' = hearings THEN Min(reported + 1, MaxCount)
                               ELSE reported
               /\ searched' = Append(searched, old_links[link].url)
               /\ Advance
    /\ UNCHANGED <<old_links, new_links, fetches>>
    /\ UNCHANGED <<parser_vars, dataset_vars>>

\* line 82 is false: the meta_url is in self.searched
Known ==
    /\ pc = "for"
    /\ old_links[link].k = "more"
    /\ old_links[link].url \in Range(searched)
    /\ Advance
    /\ UNCHANGED <<searched, old_links, new_links, hearings, saves, fetches, reported>>
    /\ UNCHANGED <<parser_vars, dataset_vars>>

\* Expand that does not add the url to self.searched
Expand_NoAppend ==
    /\ pc = "for"
    /\ old_links[link].k = "nav"
    /\ old_links[link].url \notin Range(searched)
    /\ fetches' = Counted(fetches, old_links[link].url)
    /\ \E page \in Pages \cup {Refused} :
          IF page = Refused
          THEN pc' = "raised" /\ UNCHANGED <<new_links, searched, link>>
          ELSE /\ new_links' = new_links \o page
               /\ UNCHANGED searched
               /\ Advance
    /\ UNCHANGED <<old_links, hearings, saves, reported>>
    /\ UNCHANGED <<parser_vars, dataset_vars>>

\* lines 88-89 and 96-106: _extract_nav fetches a page that is not in
\* self.searched, adds its url to it and returns its links
Expand ==
    /\ pc = "for"
    /\ old_links[link].k = "nav"
    /\ old_links[link].url \notin Range(searched)
    /\ fetches' = Counted(fetches, old_links[link].url)
    /\ \E page \in Pages \cup {Refused} :
          IF page = Refused
          THEN pc' = "raised" /\ UNCHANGED <<new_links, searched, link>>
          ELSE /\ new_links' = new_links \o page
               /\ searched' = Append(searched, old_links[link].url)
               /\ Advance
    /\ UNCHANGED <<old_links, hearings, saves, reported>>
    /\ UNCHANGED <<parser_vars, dataset_vars>>

\* lines 98, 107-108: _extract_nav returns [] for a url in self.searched
Seen ==
    /\ pc = "for"
    /\ old_links[link].k = "nav"
    /\ old_links[link].url \in Range(searched)
    /\ Advance
    /\ UNCHANGED <<searched, old_links, new_links, hearings, saves, fetches, reported>>
    /\ UNCHANGED <<parser_vars, dataset_vars>>

\* lines 78 and 88 are both false: the link is passed over
Ignore ==
    /\ pc = "for"
    /\ old_links[link].k = "text"
    /\ Advance
    /\ UNCHANGED <<searched, old_links, new_links, hearings, saves, fetches, reported>>
    /\ UNCHANGED <<parser_vars, dataset_vars>>

NextScrape == Open \/ Round \/ Break \/ Save \/ Known \/ Expand \/ Seen \/ Ignore

SpecScrape == InitScrape /\ [][NextScrape]_vars

\* scrape runs in one thread and every step of it is taken once it can be
SpecScrapeFair == SpecScrape /\ WF_vars(NextScrape)

(***************************************************************************)
(* Properties.  They are stated on the ParseHearing object of the hearing   *)
(* being processed (hearing) and on the state of the batch.                 *)
(***************************************************************************)
\* the cascade inputs of statement p of the current hearing, as
\* _assign_metadata computes them
HChair == find_chair(hearing.entry.transcript, hearing.statement_cutpoints)
HLast(p) == NameLast(p.name_raw, HChair)
HMembers(p) == member_table_matches(member_table, HLast(p), p.congress, p.committees, p.state)
HWitnessOK(p) ==
    WitnessOK(hearing.entry.witness_meta,
              witness_name_matches(hearing.entry.witness_meta, HLast(p)))
HGuests(p) ==
    guest_matches(member_table, HLast(p), p.congress, p.hearing_chamber,
                  PresentMembers(hearing.entry.transcript, hearing.statement_cutpoints))
HReps(p) == rep_list(member_table, HLast(p), p.congress)
HConfirmed(p) ==
    /\ Cardinality(HReps(p)) = 1
    /\ LET line == name_line(hearing.entry.transcript, hearing.statement_cutpoints, HLast(p))
       IN line # 0 /\ Confirmed(hearing.entry.transcript[line])

Statements == {hearing.parsed[i] : i \in DOMAIN hearing.parsed}

\* C1: the cascade is first-match-wins in the order committee member,
\* witness, guest, fallback: a unique committee-member candidate always wins,
\* also against a unique witness or guest match, and a later step is used
\* only when every earlier step gave no unique result.
C1_CascadePrecedence ==
    hearing.assigned =>
        \A p \in Statements :
            /\ Cardinality(HMembers(p)) = 1
                  => p.branch = "member" /\ p.name_full \in HMembers(p)
            /\ p.branch = "witness" => Cardinality(HMembers(p)) # 1
            /\ p.branch = "guest" => Cardinality(HMembers(p)) # 1 /\ ~HWitnessOK(p)
            /\ p.branch \in {"fallback", "unknown"}
                  => Cardinality(HMembers(p)) # 1 /\ ~HWitnessOK(p)
                     /\ Cardinality(HGuests(p)) # 1

\* a unique committee member and a unique witness for the same surname
C1_Witness ==
    /\ hearing.assigned
    /\ \E p \in Statements :
          Cardinality(HMembers(p)) = 1 /\ HWitnessOK(p) /\ p.branch = "member"

\* two legislators with the speaker's surname sit on a committee of the
\* hearing in its congress, and the label names no state
Ambiguous(p) ==
    /\ p.state = None
    /\ Cardinality(member_table_matches(member_table, HLast(p), p.congress, p.committees,
                                        None)) >= 2

\* C2 (as stated): with two legislators of the speaker's surname on the
\* hearing's committee and no state in the label, the statement is resolved
\* to the unknown sentinel and to no identity at all.
C2_AmbiguityIsUnknown ==
    hearing.assigned => \A p \in Statements : Ambiguous(p) => p.name_full = NA

\* C2 (amended): such a statement is never resolved by the committee-member
\* step nor by the fallback step, and it is unknown unless the witness step
\* or the guest step has its own unique match.
C2_AmbiguityFallsThrough ==
    hearing.assigned =>
        \A p \in Statements :
            Ambiguous(p) =>
                /\ p.branch \notin {"member", "fallback"}
                /\ (~HWitnessOK(p) /\ Cardinality(HGuests(p)) # 1) => p.name_full = NA

C2_Witness ==
    /\ hearing.assigned
    /\ \E p \in Statements : Ambiguous(p) /\ p.name_full = NA /\ p.branch = "unknown"

\* number of length-2 entries of statement_cutpoints
RealSpans == {i \in DOMAIN hearing.statement_cutpoints :
                 Len(hearing.statement_cutpoints[i]) = 2}

CommitteesListed ==
    /\ hearing.entry.committees # << >>
    /\ ~CommitteeMissing(hearing.entry, committee_data)

\* C3 (as stated, for hearings whose committees are all listed): once a
\* label is found in the first 75,000 characters, _segment_transcript
\* completes and returns one record per real span, minus one when
\* delete_last is set, for every number of real spans including zero.
C3_Coverage ==
    (hearing.started /\ CommitteesListed) =>
        /\ hearing.raised = ""
        /\ Len(hearing.parsed)
             = Cardinality(RealSpans) - (IF hearing.delete_last THEN 1 ELSE 0)

\* C4 (as stated): no hearing aborts the run; when the run ends every found
\* hearing has its entry in self.results.
C4_BatchContainment ==
    /\ pc # "raised"
    /\ pc = "done" => Len(results) = Cardinality({i \in DOMAIN rows : rows[i] = "found"})

\* C5 (as stated): a hearing with a committee that committee_data does not
\* list is parsed without an exception, gets the warning and no speaker.
C5_UnlistedCommitteeSkipped ==
    CommitteeMissing(hearing.entry, committee_data) =>
        /\ hearing.raised = ""
        /\ hearing.started => hearing.warned
        /\ ~hearing.assigned
        /\ \A p \in Statements : p.name_full = None

\* the statement bodies of all real spans, in order
Bodies ==
    LET cuts == hearing.statement_cutpoints
        real == SortedSeq(RealSpans)
    IN [k \in DOMAIN real |-> << cuts[real[k]][2] + 2, cuts[real[k] + 1][1] >>]

ParsedBodies == [i \in DOMAIN hearing.parsed |-> << hearing.parsed[i].from, hearing.parsed[i].to >>]

\* C6 (as stated, for hearings whose committees are all listed): with
\* delete_last set exactly one record, the last real statement of the
\* hearing, is dropped; with delete_last not set nothing is dropped.
C6_TruncationDropsLast ==
    (hearing.started /\ CommitteesListed) =>
        /\ hearing.raised = ""
        /\ hearing.delete_last => Bodies # << >> /\ ParsedBodies = DelLast(Bodies)
        /\ ~hearing.delete_last => ParsedBodies = Bodies

\* C7 (as stated): the session spans are pairwise non-overlapping and no
\* speaker label is recorded twice in statement_cutpoints.
C7_SessionsDisjoint ==
    LET ss == hearing.session_cutpoints
        cuts == hearing.statement_cutpoints
    IN /\ \A a, b \in DOMAIN ss :
              a < b => ~(Max(ss[a][1], ss[b][1]) < Min(ss[a][2], ss[b][2]))
       /\ \A a, b \in RealSpans : a # b => cuts[a] # cuts[b]

\* C8: the real spans of one session are in transcript order and do not
\* overlap (a.start < a.end <= b.start for consecutive spans a, b), and two
\* spans never come from the same line: a newline+indent marker lies
\* between them.
C8_SpanOrdering ==
    LET cuts == hearing.statement_cutpoints
        tr == hearing.entry.transcript
        n == TLen(tr)
    IN \A i \in RealSpans :
          /\ cuts[i][1] < cuts[i][2]
          /\ (i + 1) \in RealSpans =>
                /\ cuts[i][2] <= cuts[i + 1][1]
                /\ \E t \in DOMAIN tr :
                      /\ tr[t].k \in {"lbl", "nl", "pres"}
                      /\ PyIdx(cuts[i][2], n) <= Start(tr, t)
                      /\ Start(tr, t) < PyIdx(cuts[i + 1][1], n)

\* two consecutive real spans in one session
C8_Witness == \E i \in RealSpans : (i + 1) \in RealSpans

\* no cascade step has a unique (and, for the fallback, confirmed) match
NoUniqueMatch(p) ==
    /\ Cardinality(HMembers(p)) # 1
    /\ ~HWitnessOK(p)
    /\ Cardinality(HGuests(p)) # 1
    /\ ~HConfirmed(p)

\* C9 (as stated): without a unique confirmed match every speaker field is
\* NA, person_chamber included.
C9_UnknownAllNA ==
    hearing.assigned =>
        \A p \in Statements :
            NoUniqueMatch(p) =>
                /\ p.name_full = NA /\ p.member_id = NA /\ p.party = NA
                /\ p.majority = NA /\ p.party_seniority = NA /\ p.leadership = NA
                /\ p.person_chamber = NA

\* C9 (amended): without a unique confirmed match name_full, member_id,
\* party, majority, party_seniority and leadership are NA and person_chamber
\* is the chamber of the hearing.
C9_UnknownFields ==
    hearing.assigned =>
        \A p \in Statements :
            NoUniqueMatch(p) =>
                /\ p.name_full = NA /\ p.member_id = NA /\ p.party = NA
                /\ p.majority = NA /\ p.party_seniority = NA /\ p.leadership = NA
                /\ p.person_chamber = p.hearing_chamber

\* a legislator of the congress has the surname but no line confirms him
C9_Witness ==
    /\ hearing.assigned
    /\ \E p \in Statements :
          /\ NoUniqueMatch(p)
          /\ Cardinality(HReps(p)) = 1
          /\ p.person_chamber = "HOUSE"

Branches == {"member", "witness", "guest", "fallback", "unknown"}

\* C10: when all committees of the hearing are in committee_data,
\* _assign_metadata raises nothing and gives every parsed statement exactly
\* one outcome; several candidates at a step are no match at that step.
C10_ResolutionTotal ==
    (hearing.started /\ ~CommitteeMissing(hearing.entry, committee_data)
       /\ segment_transcript(hearing.entry, committee_data, hearing.statement_cutpoints,
                             hearing.delete_last).raised = "")
    => /\ hearing.raised = ""
       /\ hearing.assigned
       /\ \A p \in Statements :
             /\ p.branch \in Branches
             /\ p.name_full # None /\ p.member_id # None
             /\ (p.name_full = NA) = (p.branch = "unknown")
             /\ Cardinality(HMembers(p)) > 1 => p.branch # "member"
             /\ Cardinality(witness_name_matches(hearing.entry.witness_meta, HLast(p))) > 1
                   => p.branch # "witness"
             /\ Cardinality(HGuests(p)) > 1 => p.branch # "guest"
             /\ Cardinality(HReps(p)) > 1 => p.branch # "fallback"

\* several committee members match and the statement ends as unknown
C10_Witness ==
    /\ hearing.assigned
    /\ \E p \in Statements : Cardinality(HMembers(p)) > 1 /\ p.branch = "unknown"

\* the rows of id_values already handled by the loop that were found
FoundRows == SortedSeq({i \in 1..(j - 1) : i \in DOMAIN rows /\ rows[i] = "found"})

Built == pc \in {"append", "raised"}

\* line 266: the search of the whole transcript finds no label
NoLabelFound ==
    ~name_search(hearing.entry.transcript, 0, TLen(hearing.entry.transcript)).found

\* C12: when _name_search finds no qualifying label in the first
\* max_search_length characters, ParseHearing raises nothing, runs neither
\* session detection nor segmentation nor metadata assignment, and leaves
\* parsed, session_cutpoints and statement_cutpoints empty.
C12_NoStatementStart ==
    (Built /\ NoLabelFound) =>
        /\ hearing.raised = "" /\ pc = "append"
        /\ hearing.parsed = << >>
        /\ hearing.session_cutpoints = << >>
        /\ hearing.statement_cutpoints = << >>
        /\ ~hearing.started /\ ~hearing.delete_last
        /\ ~hearing.warned /\ ~hearing.assigned

\* the only label of the transcript lies beyond the scan window
C12_Witness ==
    /\ Built /\ NoLabelFound
    /\ \E i \in DOMAIN hearing.entry.transcript :
          /\ hearing.entry.transcript[i].k = "lbl"
          /\ Start(hearing.entry.transcript, i) >= max_search_length
    /\ hearing.parsed = << >>

\* the statements create_dataset was given, and where they went
DatasetStatements ==
    UNION {{[i |-> i, n |-> n] : n \in DOMAIN results[i]} : i \in DOMAIN results}
MeetsMinimum(s) ==
    Len(Doc(results[s.i][s.n].cleaned, args.min_token_length)) >= args.min_doc_length
Sources(lst) == {[i |-> lst[m].i, n |-> lst[m].n] : m \in DOMAIN lst}

\* C13: after create_dataset, a statement is in the corpus and in the index
\* exactly when its document has at least min_doc_length tokens, whatever the
\* number of statements of its hearing, and corpus and index hold the same
\* documents
C13_OnlyShortDocumentsLeftOut ==
    pc = "dataset" =>
        /\ \A s \in DatasetStatements : MeetsMinimum(s) <=> s \in Sources(corpus)
        /\ Sources(corpus) = Sources(keep)
        /\ Len(corpus) = Len(keep)

\* C14: a second run of ParseHearing, on the entry as the first run left it
\* and with the same member table and committee mapping, yields the same
\* entry, session_cutpoints, statement_cutpoints and parsed records (and the
\* same exception, when the first run raised one)
C14_SecondRunIdentical ==
    Built => ParseHearing(hearing.entry, committee_data, member_table) = hearing

\* a hearing whose transcript was cut at the marker and then segmented
C14_Witness ==
    /\ pc = "append"
    /\ hearing.entry.transcript =
           <<Tok("met", NoLabel), Tok("lbl", MrSmith), Tok("nl", NoLabel),
             Tok("adj", NoLabel)>>
    /\ Len(hearing.parsed) = 1
    /\ ParseHearing(hearing.entry, committee_data, member_table).parsed = hearing.parsed

\* C15: no step of the batch changes member_table or committee_data; a
\* step that runs ParseHearing writes only the hearing being processed (with
\* the bookkeeping of the loop: rows and pc), and the records of the
\* hearings parsed before stay as they were appended
C15_SharedIndexesReadOnly ==
    [][/\ member_table' = member_table
       /\ committee_data' = committee_data
       /\ Len(output') >= Len(output)
       /\ SubSeq(output', 1, Len(output)) = output
       /\ (pc = "loop" /\ Built') => (output' = output /\ j' = j /\ results' = results)]_vars

\* the second hearing of a batch went through every stage, up to the update
\* of _assign_metadata, after a first hearing that left records
C15_Witness ==
    /\ pc = "append"
    /\ j = 2
    /\ Len(output) = 1
    /\ output[1] # << >>
    /\ hearing.assigned
    /\ hearing.parsed # << >>
    /\ DOMAIN member_table # {}
    /\ committee_data = CommitteeData

HOpenings == Openings(hearing.entry.transcript, OpeningMarks(hearing.entry.transcript))

\* C16 (as stated): _find_sessions returns max(#openings, #closing markers,
\* 1) spans, pairs openings and closing markers positionally, and with fewer
\* closing markers than openings (zero included) every session without a
\* closing marker of its own ends at the next opening, the last one at the
\* end of the text
C16_SessionPairing ==
    (Built /\ hearing.started) =>
        LET ss == hearing.session_cutpoints
            o == HOpenings
            c == ClosingMarks(hearing.entry.transcript)
            n == TLen(hearing.entry.transcript)
        IN  /\ Len(ss) = Max(Len(o), Max(Len(c), 1))
            /\ \A k \in DOMAIN ss :
                  /\ k <= Len(o) => ss[k][1] = o[k]
                  /\ k <= Len(c) => ss[k][2] = c[k]
            /\ Len(c) < Len(o) =>
                  \A k \in (Len(c) + 1)..Len(o) :
                      k \in DOMAIN ss /\ ss[k][2] = (IF k = Len(o) THEN n ELSE o[k + 1])

\* C17: after _find_sessions, delete_last is True exactly when fewer closing
\* markers than session openings were found (no closing marker at all
\* included)
C17_TruncationFlag ==
    (Built /\ hearing.started) =>
        (hearing.delete_last <=>
            Len(ClosingMarks(hearing.entry.transcript)) < Len(HOpenings))

\* two openings and one closing marker: the flag is set although a closing
\* marker was found
C17_Witness ==
    /\ Built
    /\ hearing.started
    /\ Len(ClosingMarks(hearing.entry.transcript)) = 1
    /\ Len(OpeningMarks(hearing.entry.transcript)) = 2
    /\ hearing.delete_last
    /\ Len(hearing.session_cutpoints) = 2

\* the length-1 entries of statement_cutpoints, in order
Sentinels ==
    SelectSeq(hearing.statement_cutpoints, LAMBDA cut : Len(cut) = 1)

\* C18: statement_cutpoints holds exactly one length-1 sentinel per session,
\* in session order and holding the session's closing offset; its last entry
\* is a sentinel, every real span is followed by another entry, and every
\* record of parsed comes from a real span, never from a sentinel
C18_SentinelSpans ==
    (Built /\ hearing.started) =>
        /\ Sentinels = [k \in DOMAIN hearing.session_cutpoints |->
                           << hearing.session_cutpoints[k][2] >>]
        /\ hearing.statement_cutpoints # << >>
        /\ Len(hearing.statement_cutpoints[Len(hearing.statement_cutpoints)]) = 1
        /\ \A i \in RealSpans : i + 1 \in DOMAIN hearing.statement_cutpoints
        /\ Len(hearing.parsed) <= Cardinality(RealSpans)
        /\ \A n \in DOMAIN hearing.parsed : \E k \in DOMAIN Bodies :
               ParsedBodies[n] = Bodies[k]

\* two sessions with one label each: every session has its own sentinel
C18_Witness ==
    /\ pc = "append"
    /\ Len(hearing.session_cutpoints) = 2
    /\ Len(hearing.statement_cutpoints) = 4
    /\ Len(hearing.statement_cutpoints[1]) = 2
    /\ hearing.statement_cutpoints[2] = << hearing.session_cutpoints[1][2] >>
    /\ Len(hearing.statement_cutpoints[3]) = 2
    /\ hearing.statement_cutpoints[4] = << hearing.session_cutpoints[2][2] >>
    /\ hearing.statement_cutpoints[1] # hearing.statement_cutpoints[3]
    /\ Len(hearing.parsed) = 1

\* real spans a < b of statement_cutpoints with no sentinel between them
SameSession(a, b) ==
    /\ a \in RealSpans
    /\ b \in RealSpans
    /\ a < b
    /\ \A m \in a..b : m \in RealSpans

\* C19: every real span s is followed by an entry t with s.end + 2 <=
\* t.start; the records of parsed hold, in order, the bodies
\* transcript[s.end + 2 : t.start] of the real spans (all but the last one
\* when delete_last is set); and no label recorded for the same session
\* lies inside a body
C19_BodyBounds ==
    (Built /\ hearing.started) =>
        /\ \A i \in RealSpans :
              /\ i + 1 \in DOMAIN hearing.statement_cutpoints
              /\ hearing.statement_cutpoints[i][2] + 2
                     <= hearing.statement_cutpoints[i + 1][1]
        /\ \A n \in DOMAIN hearing.parsed : ParsedBodies[n] = Bodies[n]
        /\ \A a, b \in RealSpans :
              SameSession(a, b) =>
                  /\ hearing.statement_cutpoints[b][1] >= Bodies[Cardinality({r \in RealSpans : r <= a})][2]
                  /\ hearing.statement_cutpoints[a][2] + 2 <= Bodies[Cardinality({r \in RealSpans : r <= a})][1]

\* a session with two labels: the body of the first ends where the second
\* label starts
C19_Witness ==
    /\ pc = "append"
    /\ Len(hearing.parsed) = 2
    /\ SameSession(1, 2)
    /\ hearing.parsed[1].from = hearing.statement_cutpoints[1][2] + 2
    /\ hearing.parsed[1].to = hearing.statement_cutpoints[2][1]
    /\ hearing.parsed[1].from < hearing.parsed[1].to
    /\ hearing.parsed[2].to = hearing.statement_cutpoints[3][1]

\* the lbl / ilbl chunks the name regex matches in the first
\* max_search_length characters of the transcript
RegexMatches ==
    {i \in DOMAIN hearing.entry.transcript :
        /\ hearing.entry.transcript[i].k \in {"lbl", "ilbl"}
        /\ LabelEnd(hearing.entry.transcript, i) + 2
              <= Min(TLen(hearing.entry.transcript), max_search_length)}

HSearch == name_search(hearing.entry.transcript, 0, TLen(hearing.entry.transcript))

\* C20 (as stated): the label _name_search returns starts literally with a
\* listed prefix and has at most 5 words; it is the first match of the
\* window with these two properties, and None is returned only when the
\* window holds no such match
C20_ConservativeNameHeuristic ==
    LET LiteralPrefix(l) ==
            \E pattern \in Patterns :
                /\ Len(pattern) <= Len(LabelChars(l))
                /\ \A i \in DOMAIN pattern : pattern[i] = LabelChars(l)[i]
    IN
    Built =>
        /\ HSearch.found =>
              /\ LiteralPrefix(HSearch.label)
              /\ LabelWords(HSearch.label) <= 5
              /\ \E i \in RegexMatches :
                    /\ LabelStart(hearing.entry.transcript, i) = HSearch.start
                    /\ \A m \in RegexMatches :
                          (m < i) => ~(LiteralPrefix(hearing.entry.transcript[m].l)
                                       /\ LabelWords(hearing.entry.transcript[m].l) <= 5)
        /\ ~HSearch.found =>
              \A m \in RegexMatches :
                  ~(LiteralPrefix(hearing.entry.transcript[m].l)
                    /\ LabelWords(hearing.entry.transcript[m].l) <= 5)

\* the rows of the legislator that statement p was resolved to, in the
\* congress of the hearing, and the committees of the hearing among them
PFacts(p) == member_table[p.name_full].cong[p.congress]
PCurrent(p) == current_committees(p.committees, PFacts(p))
PFields(p) == <<p.majority, p.party_seniority, p.leadership>>
FieldsOf(f) == <<f.Majority, f.Seniority, f.Leadership>>

\* C21 (as stated): a statement resolved by the committee-member step has
\* party and chamber of the row of the matched hearing committee, and
\* majority, party seniority and leadership of that row, or 'NA' for the
\* three when the legislator has more than one committee in the congress
C21_MemberFieldsAsStated ==
    hearing.assigned =>
        \A p \in Statements :
            p.branch = "member" =>
                /\ p.party = FactFor(PFacts(p), PCurrent(p)[1]).Party
                /\ p.person_chamber = FactFor(PFacts(p), PCurrent(p)[1]).Chamber
                /\ PFields(p) = IF Len(PFacts(p)) > 1 THEN <<NA, NA, NA>>
                                ELSE FieldsOf(FactFor(PFacts(p), PCurrent(p)[1]))

\* C21 (amended): party is that of the legislator's first row of the
\* congress, chamber that of the row of the first hearing committee the
\* legislator sits on; majority, party seniority and leadership are read
\* from that row when it is the only hearing committee the legislator sits
\* on, and are 'NA' when the legislator sits on several of the hearing's
\* committees
C21_MemberFields ==
    hearing.assigned =>
        \A p \in Statements :
            p.branch = "member" =>
                /\ PCurrent(p) # << >>
                /\ p.party = PFacts(p)[1].Party
                /\ p.person_chamber = FactFor(PFacts(p), PCurrent(p)[1]).Chamber
                /\ PFields(p) = IF Len(PCurrent(p)) > 1 THEN <<NA, NA, NA>>
                                ELSE FieldsOf(FactFor(PFacts(p), PCurrent(p)[1]))

\* a legislator with two committees, one of them the hearing's: the fields
\* of that committee are recorded, with the party of the first row
C21_Witness ==
    /\ hearing.assigned
    /\ \E p \in Statements :
          /\ p.branch = "member"
          /\ Len(PFacts(p)) = 2
          /\ Len(PCurrent(p)) = 1
          /\ p.majority = "1"
          /\ p.party = "D"
          /\ FactFor(PFacts(p), PCurrent(p)[1]).Party = "R"

\* the entries of the witness list that contain the last name of statement p,
\* and those of them that name no legislator
HWitnesses(p) == witness_name_matches(hearing.entry.witness_meta, HLast(p))
HOutsiders(p) ==
    {i \in HWitnesses(p) : hearing.entry.witness_meta[i].phrase \notin
                               {"Representative in Congress", "Senator"}}
WitnessFields(p) ==
    /\ p.party = "WITNESS"
    /\ <<p.member_id, p.majority, p.party_seniority, p.leadership>> = <<NA, NA, NA, NA>>

\* C22 (as stated): without a unique committee member, a statement is
\* resolved as a witness exactly when one single entry of the witness list
\* contains the last name and names no legislator; entries that name a
\* legislator are not counted.
C22_WitnessAsStated ==
    hearing.assigned =>
        \A p \in Statements :
            Cardinality(HMembers(p)) # 1 =>
                (p.branch = "witness" <=> Cardinality(HOutsiders(p)) = 1)

\* C22 (amended): without a unique committee member, a statement is resolved
\* as a witness exactly when one single entry of the witness list contains
\* the last name, legislators included in the count, and that entry names no
\* legislator; the statement then carries the entry's text, party 'WITNESS'
\* and 'NA' for member_id, majority, seniority and leadership.
C22_WitnessMatch ==
    hearing.assigned =>
        \A p \in Statements :
            Cardinality(HMembers(p)) # 1 =>
                /\ p.branch = "witness"
                      <=> Cardinality(HWitnesses(p)) = 1 /\ HOutsiders(p) = HWitnesses(p)
                /\ p.branch = "witness"
                      => /\ WitnessFields(p)
                         /\ \E i \in HWitnesses(p) :
                               p.name_full = hearing.entry.witness_meta[i].text

\* an outside witness and a legislator witness of the same surname: the
\* statement is not resolved as a witness
C22_Witness ==
    /\ hearing.assigned
    /\ \E p \in Statements :
          /\ Cardinality(HMembers(p)) # 1
          /\ Cardinality(HWitnesses(p)) = 2
          /\ Cardinality(HOutsiders(p)) = 1
          /\ p.branch # "witness"

\* C23 (as stated): the present-members string holds the surnames listed
\* after the 'present:' markers of the first 75,000 characters, and the
\* chair's surname whenever a chair was detected, with or without a
\* 'present:' line; and a statement that no earlier step resolves, whose
\* surname is listed and belongs to one single legislator of the hearing's
\* chamber and congress, is resolved to that legislator by the guest step.
C23_PresentMembers ==
    hearing.assigned =>
        LET tr == hearing.entry.transcript
            listed == IF find_member_list(tr) = NoList THEN {} ELSE {"smith", "jones"}
            chair == IF HChair = None THEN {} ELSE {Lower[HChair]}
            candidates(p) == {k \in DOMAIN member_table :
                                 /\ AliasMatch(member_table[k], HLast(p))
                                 /\ p.hearing_chamber \in member_table[k].Chamber
                                 /\ p.congress \in DOMAIN member_table[k].cong
                                 /\ member_table[k].Name \cap listed # {}}
        IN /\ PresentMembers(tr, hearing.statement_cutpoints) = listed \cup chair
           /\ \A p \in Statements :
                 (/\ Cardinality(HMembers(p)) # 1
                  /\ ~HWitnessOK(p)
                  /\ Cardinality(candidates(p)) = 1)
                     => p.branch = "guest" /\ p.name_full \in candidates(p)

\* C24 (as stated): a statement that steps 2-4 leave unresolved, and whose
\* surname belongs to one single legislator of the congress, is resolved to
\* that legislator when the mention of the surname nearest before the first
\* statement is on a line that begins with 'Representative' or 'Senator' or
\* holds 'Representative in Congress' or 'U.S. Senator', and is unknown
\* otherwise.
C24_FallbackDisambiguation ==
    hearing.assigned =>
        LET tr == hearing.entry.transcript
            start == PyIdx(FirstCut(hearing.statement_cutpoints), TLen(tr))
            mentions(p) == {i \in DOMAIN tr : Mentions(tr[i], HLast(p))
                                              /\ Inside(tr, i, 0, start)}
            nearest(p) == CHOOSE i \in mentions(p) : \A i2 \in mentions(p) : i2 <= i
        IN \A p \in Statements :
              (/\ Cardinality(HMembers(p)) # 1
               /\ ~HWitnessOK(p)
               /\ Cardinality(HGuests(p)) # 1
               /\ Cardinality(HReps(p)) = 1)
                  => IF mentions(p) # {} /\ tr[nearest(p)].k \in {"mrep", "mric"}
                     THEN p.branch = "fallback" /\ p.name_full \in HReps(p)
                     ELSE p.branch = "unknown" /\ p.name_full = NA

\* C25 (as stated): the statement of a label '<label> of <S>', S a state of
\* the list in any letter case, has state S and the label without ' of <S>';
\* and a statement has a state only when its label names that state after
\* 'of'.  Stated for the hearings whose transcript holds one label.
C25_StateDetection ==
    hearing.started =>
        LET tr == hearing.entry.transcript
            labels == {i \in DOMAIN tr : tr[i].k \in {"lbl", "ilbl"}}
        IN Cardinality(labels) = 1 =>
              LET l == tr[CHOOSE i \in labels : TRUE].l
                  named == l.of # "" /\ Lower[l.of] \in Range(states_long)
              IN \A p \in Statements :
                    /\ named => /\ p.state = Lower[l.of]
                                /\ p.name_raw = Label(l.pre, l.last, "")
                    /\ p.state # None => named /\ p.state = Lower[l.of]

(***************************************************************************)
(* Properties of Scraper.scrape.                                            *)
(***************************************************************************)
\* C26 (as stated): scrape terminates; no navigation page, the initial page
\* included, is fetched more than once; a page that _extract_nav expanded is
\* in self.searched; and the loop is left in the first round that collected
\* no link.
C26_CrawlerTerminationAsStated ==
    /\ [][\A u \in PageUrls : Count(fetches', u) <= 1]_vars
    /\ [][(pc = "while" /\ new_links = << >>) => pc' = "done"]_vars
    /\ <>(pc \in {"done", "raised"})

\* C26 (amended): scrape terminates; _extract_nav fetches and expands a page
\* at most once and adds it to self.searched, so that a page other than the
\* initial one is fetched at most once and the initial page, which scrape
\* fetches first without adding it to self.searched, at most twice; and the
\* loop is left in the first round that collected no link.
C26_CrawlerTermination ==
    /\ [][\A u \in PageUrls :
             /\ Count(fetches', u) <= (IF u = initial_link THEN 2 ELSE 1)
             /\ (Count(fetches', u) # Count(fetches, u) /\ pc = "for" /\ pc' # "raised")
                   => u \notin Range(searched) /\ u \in Range(searched')]_vars
    /\ [][(pc = "while" /\ new_links = << >>) => pc' = "done"]_vars
    /\ <>(pc \in {"done", "raised"})

\* a page linked back to the initial page: the initial page was fetched
\* again, every page is in self.searched, and the loop was left
C26_Witness ==
    /\ pc = "done"
    /\ Count(fetches, initial_link) = 2
    /\ Count(fetches, Url("page", 1)) = 1
    /\ PageUrls \subseteq Range(searched)

\* C27: _save_data is called for a metadata url only when it was not called
\* for it before and no row of the hearings table has that url, so never
\* for a url stored when the Scraper was built; a duplicate key is reported,
\* leaves the table as it was and does not stop the crawl; and
\* self.searched only grows.
C27_SaveAtMostOnce ==
    [][/\ \A u \in DetailUrls \cup {OldUrl} :
             Count(saves', u) # Count(saves, u)
                => /\ Count(saves, u) = 0
                   /\ \A row \in hearings : row.url # u
       /\ reported' # reported => hearings' = hearings /\ pc' \in {"for", "while"}
       /\ Len(searched') >= Len(searched)
       /\ SubSeq(searched', 1, Len(searched)) = searched]_vars

\* the hearing is linked twice on the page: the first link was saved and
\* reported as a duplicate key, the second one is passed over
C27_Witness ==
    /\ pc = "for"
    /\ link = 2
    /\ old_links[1] = old_links[2]
    /\ old_links[1].k = "more"
    /\ Count(saves, old_links[1].url) = 1
    /\ reported = 1
    /\ hearings = {HearingRow("CHRG-1", OldUrl)}

\* C28 (as stated): every span (start, end) of session_cutpoints has
\* 0 <= start <= end <= len(transcript), the fallback opening and the
\* openings padded with closings included
C28_ValidSessionRanges ==
    (Built /\ hearing.started) =>
        \A k \in DOMAIN hearing.session_cutpoints :
            /\ 0 <= hearing.session_cutpoints[k][1]
            /\ hearing.session_cutpoints[k][1] <= hearing.session_cutpoints[k][2]
            /\ hearing.session_cutpoints[k][2] <= TLen(hearing.entry.transcript)

\* C29 (as stated): a statement with a detected state that the committee
\* member step, the guest step or the fallback step resolves to a legislator
\* is resolved to a legislator whose states include the abbreviation of the
\* detected state
C29_StateConsistency ==
    hearing.assigned =>
        \A p \in Statements :
            (p.state # None /\ p.branch \in {"member", "guest", "fallback"}) =>
                states_abbrev[CHOOSE i \in DOMAIN states_long : states_long[i] = p.state]
                    \in member_table[p.name_full].State

\* C30 (as stated): a statement whose extracted last name is the empty
\* string is resolved as unknown, never as a witness nor as a legislator
C30_EmptySurnameUnknown ==
    hearing.assigned =>
        \A p \in Statements :
            HLast(p) = "" => p.branch = "unknown" /\ p.name_full = NA

====
